---- MODULE Spec2Model ----
(***************************************************************************)
(* Bus arbitration and polling discipline of the instrument control suite: *)
(* GearpumpControlWorker (gearpump_control.py), RelayControlThread          *)
(* (relay_control.py) and ServoThread (servo_control.py).                   *)
(*                                                                          *)
(* Threads: the pump worker (QTimer driven), the relay thread and the servo *)
(* thread (QThread.run loops), and the GUI thread, which executes every     *)
(* slot, every direct command call and every QTimer.singleShot callback.    *)
(* A transaction is two steps: the write of the request (tx) and the read   *)
(* of the response (rx).                                                    *)
(*                                                                          *)
(* Protocol layer: the frames of GearPumpController (Modbus RTU: CRC16,     *)
(* request constructors, response parsers) and of RelayControl (checksum    *)
(* frames), and one operation of either class, step by step, against a      *)
(* device that answers, stays silent, truncates or corrupts its response.   *)
(***************************************************************************)
EXTENDS Integers, Sequences, FiniteSets, Bags, TLC

\* ---------------------------------------------------------------- bounds
MaxPending == 2   \* delayed torque-disables pending when a position write is requested

\* ------------------------------------------------------------- constants
Free == "free"          \* value of an unlocked QMutex
Missing == <<>>         \* a key that is not in servos_positions_loads
\* Python values returned by the controller methods
PyNone == [t |-> "none"]
PyInt(n) == [t |-> "int", v |-> n]
PyStr(x) == [t |-> "str", v |-> x]
NoEvent == [op |-> "none", out |-> "none", pub |-> FALSE, resp |-> <<>>]

Buses == {"pump", "relay", "servo"}
Tasks == {"pumpWorker", "relayThread", "servoThread", "gui"}

\* the bus a polling task works on
BusOf(t) == CASE t = "pumpWorker" -> "pump"
              [] t = "relayThread" -> "relay"
              [] t = "servoThread" -> "servo"
              [] OTHER -> "gui"

\* servos handed to ServoThread, in dictionary (insertion) order
ServoOrder == <<1, 2>>
Servos == {ServoOrder[i] : i \in 1..Len(ServoOrder)}

\* values a servo can report: position around the 2100 threshold, load
Positions == {2100, 2101}
Loads == {0, 1}

\* the five reads of one pump poll cycle, in program order
PumpReads == <<"flow", "rotate", "pressure", "temperature", "state">>

\* raw register / coil values a well-formed response can carry
RawValues == {0, 1}

\* results of a Modbus parse: a value, or one of the ModbusError family
ModbusErrors == {"incomplete", "devexc", "badcount", "crc"}
\* an exception that is not a ModbusError (serial port closed, write failed)
Transport == "transport"

\* lengths of a relay response (read(15) returns at most 15 bytes)
RelayRespLens == {0, 11, 12, 15}
RelayFrameLen == 15

\* (length, checksum valid) of the responses the relay can be seen to send
RelayResponses == {<<n, FALSE>> : n \in RelayRespLens} \cup {<<RelayFrameLen, TRUE>>}

\* the GUI thread executes nothing
NoSlot == [fn |-> "none", ids |-> <<>>, i |-> 0, op |-> "none", arg |-> 0]

\* no operation of the protocol layer is being executed
NoCall == [op |-> "none", addr |-> 0, n |-> 0, vals |-> <<>>]
NoPeer == [does |-> "nothing", k |-> 0, data |-> <<>>]
NoResult == [kind |-> "none", why |-> "none", val |-> <<>>]

\* ---------------------------------------------------------------- state
VARIABLES
  pc,           \* control point of every thread
  mutex,        \* QMutex of every worker object: its holder, or Free
  running,      \* the running flag of every worker object
  inflight,     \* per bus: tasks whose request is written, response not read
  pumpIdx,      \* index into PumpReads of the current read of the cycle
  timerActive,  \* poll_timer of the pump worker is started
  servoCur,     \* index into ServoOrder of the for loop in ServoThread.run
  table,        \* ServoThread.servos_positions_loads
  timers,       \* bag of pending QTimer.singleShot callbacks
  slot,         \* the slot / command the GUI thread is executing
  last,         \* per task: the last transaction result and what was emitted
  phase,        \* per servo: progress of the sequence started by io_open
  call,         \* protocol layer: the operation being executed, its arguments
  step,         \* protocol layer: control point inside the operation
  ser,          \* protocol layer: self.ser of the controller
  serlog,       \* protocol layer: the calls made on self.ser, in order
  peer,         \* what the device at the other end of the line does
  response,     \* protocol layer: the bytes returned by self.ser.read
  result        \* protocol layer: what the operation returned or raised

\* the state of one operation of GearPumpController / RelayControl
codec == <<call, step, ser, serlog, peer, response, result>>

\* the state of the threads and of their buses
bus == <<pc, mutex, running, inflight, pumpIdx, timerActive, servoCur,
         table, timers, slot, last, phase>>

vars == <<bus, codec>>

\* ------------------------------------------------------------- helpers
\* the QMutex created in the __init__ of worker w
SharedMutex(w) == "pump"
MutexOf(w) == w

\* QMutexLocker(self.mutex).__enter__ : blocks until the mutex is free
AcquireNoWait(t, w) == mutex' = [mutex EXCEPT ![MutexOf(w)] = t]
Acquire(t, w) ==
  /\ mutex[MutexOf(w)] = Free
  /\ mutex' = [mutex EXCEPT ![MutexOf(w)] = t]

\* QMutexLocker.__exit__ : runs on every way out of the with block
ReleaseUnlessFailed(t, w) ==
  mutex' = IF last[t].out \notin {"none", "ok", "decoded", "returned"}
             THEN mutex
             ELSE [mutex EXCEPT ![MutexOf(w)] = Free]
Release(t, w) == mutex' = [mutex EXCEPT ![MutexOf(w)] = Free]

\* reset_input_buffer() + write(request): the request is on the line
Tx(t, b) == inflight' = [inflight EXCEPT ![b] = @ \cup {t}]

\* read(expected_length) returned (complete, short or empty)
Rx(t, b) == inflight' = [inflight EXCEPT ![b] = @ \ {t}]

\* the test of the stop flag: "while self.running" / "if not self.running"
ShouldRunAlways(b) == TRUE
ShouldRun(b) == running[b]

Goto(t, l) == pc' = [pc EXCEPT ![t] = l]
SetLast(t, e) == last' = [last EXCEPT ![t] = e]

\* ------------------------------------------------------------ initial
InitBus ==
  /\ pc = [t \in Tasks |-> CASE t = "pumpWorker" -> "created"
                             [] t = "gui" -> "idle"
                             [] OTHER -> "test"]
  /\ mutex = [b \in Buses |-> Free]
  /\ running = [b \in Buses |-> TRUE]
  /\ inflight = [b \in Buses |-> {}]
  /\ pumpIdx = 1
  /\ timerActive = FALSE
  /\ servoCur = 1
  /\ table = [s \in Servos |-> Missing]
  /\ timers = EmptyBag
  /\ slot = NoSlot
  /\ last = [t \in Tasks |-> NoEvent]
  /\ phase = [s \in Servos |-> "Idle"]

\* no operation of the protocol layer has been called
Init ==
  /\ InitBus
  /\ call = NoCall
  /\ step = "idle"
  /\ ser = "open"
  /\ serlog = <<>>
  /\ peer = NoPeer
  /\ response = <<>>
  /\ result = NoResult

\* ===================================================== gear pump worker
\* GearPumpController.read_current_flow / read_rotate_rate / read_pressure /
\* read_temperature / read_pump_state: the value returned for a parse result.
\* A ModbusError is caught and turned into None; anything else propagates.
ReadResult(q, out, raw) ==
  IF out \in ModbusErrors THEN PyNone
  ELSE CASE q = "flow" -> PyInt(raw)
         [] q = "rotate" -> PyInt(raw)
         [] q = "pressure" -> PyInt(raw)      \* raw / 100, a float
         [] q = "temperature" -> PyInt(raw)   \* raw / 10, a float
         [] q = "state" -> IF raw = 1 THEN PyStr("ON") ELSE PyStr("OFF")

\* v is not None
IsNotNone(v) == v.t # "none"

\* Python truthiness of a returned value
Truthy(v) == CASE v.t = "none" -> FALSE
               [] v.t = "int" -> v.v # 0
               [] v.t = "str" -> v.v # ""

\* the condition under which monitor_gearpump_state emits the update of q:
\* "is not None" for the four registers, truthiness for the pump state
EmitsUpdate(q, v) ==
  IF q = "state" THEN Truthy(v) ELSE IsNotNone(v)

\* GearpumpControlWorker.start_monitoring
start_monitoring ==
  /\ pc["pumpWorker"] = "created"
  /\ timerActive' = TRUE
  /\ Goto("pumpWorker", "timer")
  /\ UNCHANGED <<mutex, running, inflight, pumpIdx, servoCur, table, timers,
                 slot, last, phase>>
  /\ UNCHANGED codec

\* monitor_gearpump_state without the test of self.running: the timer
\* callback starts a cycle whatever stop() has set
monitor_tick_always ==
  /\ pc["pumpWorker"] = "timer"
  /\ timerActive
  /\ IF ~ShouldRunAlways("pump")
       THEN /\ timerActive' = FALSE
            /\ UNCHANGED pc
       ELSE /\ Goto("pumpWorker", "lock")
            /\ UNCHANGED timerActive
  /\ SetLast("pumpWorker", NoEvent)
  /\ UNCHANGED <<mutex, running, inflight, pumpIdx, servoCur, table, timers,
                 slot, phase>>
  /\ UNCHANGED codec

\* monitor_gearpump_state, entry on a timer tick: the running test
monitor_tick ==
  /\ pc["pumpWorker"] = "timer"
  /\ timerActive
  /\ IF ~ShouldRun("pump")
       THEN /\ timerActive' = FALSE
            /\ UNCHANGED pc
       ELSE /\ Goto("pumpWorker", "lock")
            /\ UNCHANGED timerActive
  /\ SetLast("pumpWorker", NoEvent)
  /\ UNCHANGED <<mutex, running, inflight, pumpIdx, servoCur, table, timers,
                 slot, phase>>
  /\ UNCHANGED codec

\* with QMutexLocker(self.mutex):
monitor_lock ==
  /\ pc["pumpWorker"] = "lock"
  /\ Acquire("pumpWorker", "pump")
  /\ pumpIdx' = 1
  /\ Goto("pumpWorker", "tx")
  /\ UNCHANGED <<running, inflight, timerActive, servoCur, table, timers,
                 slot, last, phase>>
  /\ UNCHANGED codec

\* read_register / read_coils: reset_input_buffer, write(request).
\* A failing write raises a serial exception, which only the worker catches.
monitor_tx ==
  /\ pc["pumpWorker"] = "tx"
  /\ \E wrote \in BOOLEAN :
       IF wrote
         THEN /\ Tx("pumpWorker", "pump")
              /\ Goto("pumpWorker", "rx")
              /\ SetLast("pumpWorker", NoEvent)
         ELSE /\ Goto("pumpWorker", "unlock")
              /\ SetLast("pumpWorker", [op |-> PumpReads[pumpIdx],
                                        out |-> Transport, pub |-> FALSE,
                                        resp |-> <<>>])
              /\ UNCHANGED inflight
  /\ UNCHANGED <<mutex, running, pumpIdx, timerActive, servoCur, table,
                 timers, slot, phase>>
  /\ UNCHANGED codec

\* a cycle that takes the mutex for each read separately
monitor_rx_unlocking ==
  /\ pc["pumpWorker"] = "rx"
  /\ Rx("pumpWorker", "pump")
  /\ \E out \in {"ok", Transport} \cup ModbusErrors, raw \in RawValues :
       LET q == PumpReads[pumpIdx] IN
       /\ SetLast("pumpWorker",
               [op |-> q, out |-> out, pub |-> FALSE, resp |-> <<>>])
       /\ IF out # Transport /\ pumpIdx < Len(PumpReads)
            THEN /\ pumpIdx' = pumpIdx + 1
                 /\ Goto("pumpWorker", "tx")
                 /\ Release("pumpWorker", "pump")
            ELSE /\ Goto("pumpWorker", "unlock")
                 /\ UNCHANGED <<pumpIdx, mutex>>
  /\ UNCHANGED <<running, timerActive, servoCur, table, timers, slot, phase>>
  /\ UNCHANGED codec

\* read(expected_length), parse, and the emit of the update
monitor_rx ==
  /\ pc["pumpWorker"] = "rx"
  /\ Rx("pumpWorker", "pump")
  /\ \E out \in {"ok", Transport} \cup ModbusErrors, raw \in RawValues :
       LET q == PumpReads[pumpIdx] IN
       IF out = Transport
         THEN /\ Goto("pumpWorker", "unlock")
              /\ SetLast("pumpWorker", [op |-> q, out |-> out, pub |-> FALSE,
                                        resp |-> <<>>])
              /\ UNCHANGED pumpIdx
         ELSE /\ SetLast("pumpWorker",
                   [op |-> q, out |-> out,
                    pub |-> EmitsUpdate(q, ReadResult(q, out, raw)),
                    resp |-> <<>>])
              /\ IF pumpIdx < Len(PumpReads)
                   THEN /\ pumpIdx' = pumpIdx + 1
                        /\ Goto("pumpWorker", "tx")
                   ELSE /\ Goto("pumpWorker", "unlock")
                        /\ UNCHANGED pumpIdx
  /\ UNCHANGED <<mutex, running, timerActive, servoCur, table, timers, slot, phase>>
  /\ UNCHANGED codec

\* leaving the with block (normally or through except Exception)
monitor_unlock ==
  /\ pc["pumpWorker"] = "unlock"
  /\ Release("pumpWorker", "pump")
  /\ Goto("pumpWorker", "timer")
  /\ UNCHANGED <<running, inflight, pumpIdx, timerActive, servoCur, table,
                 timers, slot, last, phase>>
  /\ UNCHANGED codec

monitor_gearpump_state ==
  \/ monitor_tick
  \/ monitor_lock
  \/ monitor_tx
  \/ monitor_rx
  \/ monitor_unlock

\* ========================================================= relay thread
\* read_relay_state indexes response[4 .. 11]: a shorter response raises
\* IndexError, any other response is decoded
RelayDecodes(n) == n >= 12

\* RelayControlThread.run: while self.running
relay_run_test ==
  /\ pc["relayThread"] = "test"
  /\ IF ShouldRun("relay")
       THEN Goto("relayThread", "lock")
       ELSE Goto("relayThread", "finished")
  /\ SetLast("relayThread", NoEvent)
  /\ UNCHANGED <<mutex, running, inflight, pumpIdx, timerActive, servoCur,
                 table, timers, slot, phase>>
  /\ UNCHANGED codec

relay_run_lock ==
  /\ pc["relayThread"] = "lock"
  /\ Acquire("relayThread", "relay")
  /\ Goto("relayThread", "tx")
  /\ UNCHANGED <<running, inflight, pumpIdx, timerActive, servoCur, table,
                 timers, slot, last, phase>>
  /\ UNCHANGED codec

\* read_relay_state: reset_input_buffer, write(command)
relay_run_tx ==
  /\ pc["relayThread"] = "tx"
  /\ \E wrote \in BOOLEAN :
       IF wrote
         THEN /\ Tx("relayThread", "relay")
              /\ Goto("relayThread", "rx")
              /\ UNCHANGED last
         ELSE /\ Goto("relayThread", "delay")
              /\ SetLast("relayThread", [op |-> "read_relay_state",
                     out |-> Transport, pub |-> FALSE, resp |-> <<>>])
              /\ UNCHANGED inflight
  /\ UNCHANGED <<mutex, running, pumpIdx, timerActive, servoCur, table,
                 timers, slot, phase>>
  /\ UNCHANGED codec

relay_run_rx_uncaught ==
  /\ pc["relayThread"] = "rx"
  /\ Rx("relayThread", "relay")
  /\ \E r \in RelayResponses :
       /\ SetLast("relayThread",
               [op |-> "read_relay_state",
                out |-> IF RelayDecodes(r[1]) THEN "decoded" ELSE "IndexError",
                pub |-> RelayDecodes(r[1]),
                resp |-> r])
       /\ IF RelayDecodes(r[1])
            THEN Goto("relayThread", "delay") /\ UNCHANGED mutex
            ELSE Goto("relayThread", "finished") /\ Release("relayThread", "relay")
  /\ UNCHANGED <<running, pumpIdx, timerActive, servoCur, table,
                 timers, slot, phase>>
  /\ UNCHANGED codec

\* read_relay_state: read(15), decode; run: emit relay_state_updated
relay_run_rx ==
  /\ pc["relayThread"] = "rx"
  /\ Rx("relayThread", "relay")
  /\ \E r \in RelayResponses :
       SetLast("relayThread",
               [op |-> "read_relay_state",
                out |-> IF RelayDecodes(r[1]) THEN "decoded" ELSE "IndexError",
                pub |-> RelayDecodes(r[1]),
                resp |-> r])
  /\ Goto("relayThread", "delay")
  /\ UNCHANGED <<mutex, running, pumpIdx, timerActive, servoCur, table,
                 timers, slot, phase>>
  /\ UNCHANGED codec

\* a loop that keeps the mutex from one cycle to the next
relay_run_keeps_lock ==
  /\ pc["relayThread"] = "delay"
  /\ Goto("relayThread", "test")
  /\ UNCHANGED <<mutex, running, inflight, pumpIdx, timerActive, servoCur,
                 table, timers, slot, last, phase>>
  /\ UNCHANGED codec

\* msleep(50) inside the with block, then the block is left
relay_run_unlock ==
  /\ pc["relayThread"] = "delay"
  /\ Release("relayThread", "relay")
  /\ Goto("relayThread", "test")
  /\ UNCHANGED <<running, inflight, pumpIdx, timerActive, servoCur, table,
                 timers, slot, last, phase>>
  /\ UNCHANGED codec

relay_run ==
  \/ relay_run_test
  \/ relay_run_lock
  \/ relay_run_tx
  \/ relay_run_rx
  \/ relay_run_unlock

\* ========================================================= servo thread
\* ServoThread.run: while self.running, then the for loop starts
servo_run_test ==
  /\ pc["servoThread"] = "test"
  /\ IF ShouldRun("servo")
       THEN /\ Goto("servoThread", "lock")
            /\ servoCur' = 1
       ELSE /\ Goto("servoThread", "finished")
            /\ UNCHANGED servoCur
  /\ UNCHANGED <<mutex, running, inflight, pumpIdx, timerActive, table,
                 timers, slot, last, phase>>
  /\ UNCHANGED codec

\* msleep(150); with QMutexLocker(self.mutex):
servo_run_lock ==
  /\ pc["servoThread"] = "lock"
  /\ Acquire("servoThread", "servo")
  /\ Goto("servoThread", "tx")
  /\ UNCHANGED <<running, inflight, pumpIdx, timerActive, servoCur, table,
                 timers, slot, last, phase>>
  /\ UNCHANGED codec

\* servo.read_all(): the request packet is sent
servo_run_tx ==
  /\ pc["servoThread"] = "tx"
  /\ Tx("servoThread", "servo")
  /\ Goto("servoThread", "rx")
  /\ UNCHANGED <<mutex, running, pumpIdx, timerActive, servoCur, table,
                 timers, slot, last, phase>>
  /\ UNCHANGED codec

\* a loop whose try block encloses the for loop: a read that raises ends
\* the pass
servo_run_rx_aborting ==
  /\ pc["servoThread"] = "rx"
  /\ Rx("servoThread", "servo")
  /\ LET id == ServoOrder[servoCur] IN
     \/ \E pos \in Positions, load \in Loads :
          /\ table' = [table EXCEPT ![id] = <<pos, load>>]
          /\ SetLast("servoThread", [op |-> "read_all", out |-> "ok",
                                     pub |-> TRUE, resp |-> <<id>>])
          /\ Goto("servoThread", "delay")
          /\ UNCHANGED mutex
     \/ /\ UNCHANGED table
        /\ SetLast("servoThread", [op |-> "read_all", out |-> "Exception",
                                   pub |-> FALSE, resp |-> <<id>>])
        /\ Release("servoThread", "servo")
        /\ Goto("servoThread", "test")
  /\ UNCHANGED <<running, pumpIdx, timerActive, servoCur, timers,
                 slot, phase>>
  /\ UNCHANGED codec

\* servo.read_all() returns or raises; on success the table entry is stored
\* and both signals are emitted
servo_run_rx ==
  /\ pc["servoThread"] = "rx"
  /\ Rx("servoThread", "servo")
  /\ LET id == ServoOrder[servoCur] IN
     \/ \E pos \in Positions, load \in Loads :
          /\ table' = [table EXCEPT ![id] = <<pos, load>>]
          /\ SetLast("servoThread", [op |-> "read_all", out |-> "ok",
                                     pub |-> TRUE, resp |-> <<id>>])
     \/ /\ UNCHANGED table
        /\ SetLast("servoThread", [op |-> "read_all", out |-> "Exception",
                                   pub |-> FALSE, resp |-> <<id>>])
  /\ Goto("servoThread", "delay")
  /\ UNCHANGED <<mutex, running, pumpIdx, timerActive, servoCur, timers,
                 slot, phase>>
  /\ UNCHANGED codec

\* msleep(50), the with block is left, next servo or next pass
servo_run_unlock ==
  /\ pc["servoThread"] = "delay"
  /\ Release("servoThread", "servo")
  /\ IF servoCur < Len(ServoOrder)
       THEN /\ servoCur' = servoCur + 1
            /\ Goto("servoThread", "lock")
       ELSE /\ UNCHANGED servoCur
            /\ Goto("servoThread", "test")
  /\ SetLast("servoThread", NoEvent)
  /\ UNCHANGED <<running, inflight, pumpIdx, timerActive, table, timers,
                 slot, phase>>
  /\ UNCHANGED codec

servo_run ==
  \/ servo_run_test
  \/ servo_run_lock
  \/ servo_run_tx
  \/ servo_run_rx
  \/ servo_run_unlock

\* =========================================================== GUI thread
\* what no slot of the GUI thread ever assigns
GuiFrame == UNCHANGED <<pumpIdx, timerActive, servoCur, table, codec>>

\* a pending QTimer.singleShot callback and its captured argument
Timer(fn, ids) == [fn |-> fn, ids |-> ids]

Event(op, out, pub) == [op |-> op, out |-> out, pub |-> pub, resp |-> <<>>]

\* the servo the running slot is working on
CurId == slot.ids[slot.i]

SetPhase(id, ph) == phase' = [phase EXCEPT ![id] = ph]

\* ------------------------------------------------ ServoThread.write_position
\* write_position_signal.emit(servo_id, position) from a slider or a button
emit_write_position ==
  /\ pc["gui"] = "idle"
  /\ BagCardinality(timers) < MaxPending
  /\ \E s \in Servos :
       slot' = [NoSlot EXCEPT !.fn = "write_position", !.ids = <<s>>,
                              !.i = 1, !.op = "write_position"]
  /\ Goto("gui", "lock")
  /\ GuiFrame
  /\ UNCHANGED <<mutex, running, inflight, timers, last, phase>>

\* a slot that restarts the delay: a successful write replaces the
\* torque-disables still pending for the servo by a new one
write_position_restarting ==
  /\ slot.fn = "write_position"
  /\ GuiFrame
  /\ UNCHANGED <<running, phase>>
  /\ \/ /\ pc["gui"] = "lock"
        /\ Acquire("gui", "servo")
        /\ Goto("gui", "tx")
        /\ UNCHANGED <<inflight, timers, slot, last>>
     \/ /\ pc["gui"] = "tx"
        /\ Tx("gui", "servo")
        /\ Goto("gui", "rx")
        /\ UNCHANGED <<mutex, timers, slot, last>>
     \/ /\ pc["gui"] = "rx"
        /\ Rx("gui", "servo")
        /\ \E ok \in BOOLEAN :
             IF ok
               THEN /\ timers' =
                         IF BagIn(Timer("disable_torque", <<CurId>>), timers)
                           THEN timers
                           ELSE timers (+)
                                  SetToBag({Timer("disable_torque", <<CurId>>)})
                    /\ SetLast("gui", Event("write_position", "ok", FALSE))
               ELSE /\ UNCHANGED timers
                    /\ SetLast("gui", Event("write_position", "Exception", FALSE))
        /\ Goto("gui", "unlock")
        /\ UNCHANGED <<mutex, slot>>
     \/ /\ pc["gui"] = "unlock"
        /\ Release("gui", "servo")
        /\ Goto("gui", "idle")
        /\ slot' = NoSlot
        /\ SetLast("gui", NoEvent)
        /\ UNCHANGED <<inflight, timers>>

write_position ==
  /\ slot.fn = "write_position"
  /\ GuiFrame
  /\ UNCHANGED <<running, phase>>
  /\ \/ /\ pc["gui"] = "lock"
        /\ Acquire("gui", "servo")
        /\ Goto("gui", "tx")
        /\ UNCHANGED <<inflight, timers, slot, last>>
     \/ /\ pc["gui"] = "tx"
        /\ Tx("gui", "servo")
        /\ Goto("gui", "rx")
        /\ UNCHANGED <<mutex, timers, slot, last>>
     \/ /\ pc["gui"] = "rx"
        /\ Rx("gui", "servo")
        /\ \E ok \in BOOLEAN :
             IF ok
               THEN /\ timers' = timers (+)
                         SetToBag({Timer("disable_torque", <<CurId>>)})
                    /\ SetLast("gui", Event("write_position", "ok", FALSE))
               ELSE /\ UNCHANGED timers
                    /\ SetLast("gui", Event("write_position", "Exception", FALSE))
        /\ Goto("gui", "unlock")
        /\ UNCHANGED <<mutex, slot>>
     \/ /\ pc["gui"] = "unlock"
        /\ Release("gui", "servo")
        /\ Goto("gui", "idle")
        /\ slot' = NoSlot
        /\ SetLast("gui", NoEvent)
        /\ UNCHANGED <<inflight, timers>>

\* ------------------------------------------------ ServoThread.disable_torque
disable_torque ==
  /\ slot.fn = "disable_torque"
  /\ GuiFrame
  /\ UNCHANGED <<running, phase, timers>>
  /\ \/ /\ pc["gui"] = "lock"
        /\ Acquire("gui", "servo")
        /\ Goto("gui", "tx")
        /\ UNCHANGED <<inflight, slot, last>>
     \/ /\ pc["gui"] = "tx"
        /\ Tx("gui", "servo")
        /\ Goto("gui", "rx")
        /\ UNCHANGED <<mutex, slot, last>>
     \/ /\ pc["gui"] = "rx"
        /\ Rx("gui", "servo")
        /\ \E out \in {"ok", "Exception"} :
             SetLast("gui", Event("torque_disable", out, FALSE))
        /\ Goto("gui", "unlock")
        /\ UNCHANGED <<mutex, slot>>
     \/ /\ pc["gui"] = "unlock"
        /\ Release("gui", "servo")
        /\ Goto("gui", "idle")
        /\ slot' = NoSlot
        /\ SetLast("gui", NoEvent)
        /\ UNCHANGED inflight

\* ------------------------------------------------------- ServoThread.io_open
\* the lists of servo ids io_open is called with
IoOpenArgs == {<<1, 2>>, <<2>>}

\* a verification step of an earlier io_open call is still scheduled
SequencePending ==
  \E tm \in BagToSet(timers) :
     tm.fn \in {"check_servo_position", "check_load_after_disable"}

\* io_open_signal.emit(servo_ids)
emit_io_open ==
  /\ pc["gui"] = "idle"
  /\ ~SequencePending
  /\ \E ids \in IoOpenArgs :
       slot' = [NoSlot EXCEPT !.fn = "io_open", !.ids = ids, !.i = 1,
                              !.op = "write_position"]
  /\ phase' = [s \in Servos |-> "Idle"]
  /\ Goto("gui", "lock")
  /\ GuiFrame
  /\ UNCHANGED <<mutex, running, inflight, timers, last>>

io_open ==
  /\ slot.fn = "io_open"
  /\ GuiFrame
  /\ UNCHANGED <<running>>
  /\ \/ /\ pc["gui"] = "lock"
        /\ Acquire("gui", "servo")
        /\ Goto("gui", "tx")
        /\ SetLast("gui", NoEvent)
        /\ UNCHANGED <<inflight, timers, slot, phase>>
     \/ /\ pc["gui"] = "tx"
        /\ Tx("gui", "servo")
        /\ SetPhase(CurId, "Actuating")
        /\ Goto("gui", "rx")
        /\ UNCHANGED <<mutex, timers, slot, last>>
     \/ /\ pc["gui"] = "rx"
        /\ Rx("gui", "servo")
        /\ \E out \in {"ok", "Exception"} :
             SetLast("gui", Event("write_position", out, FALSE))
        /\ Goto("gui", "unlock")
        /\ UNCHANGED <<mutex, timers, slot, phase>>
     \/ /\ pc["gui"] = "unlock"
        /\ Release("gui", "servo")
        /\ UNCHANGED <<inflight>>
        /\ IF slot.i < Len(slot.ids)
             THEN /\ slot' = [slot EXCEPT !.i = @ + 1]
                  /\ Goto("gui", "lock")
                  /\ UNCHANGED <<timers, phase, last>>
             ELSE \* QTimer.singleShot(6000, check_servo_position(servo_ids))
                  /\ timers' = timers (+) SetToBag(
                        {Timer("check_servo_position", slot.ids)})
                  /\ phase' = [s \in Servos |->
                           IF \E j \in 1..Len(slot.ids) : slot.ids[j] = s
                             THEN "VerifyingPosition" ELSE phase[s]]
                  /\ slot' = NoSlot
                  /\ SetLast("gui", NoEvent)
                  /\ Goto("gui", "idle")

\* ------------------------------------------ ServoThread.check_servo_position
\* if pos > 2100: the position command is resent
RescheduleDropped(fn, id) == UNCHANGED timers
\* a step that arms its successor twice
RescheduleTwice(fn, id) ==
  timers' = timers (+) SetToBag({Timer(fn, <<id>>)})
                   (+) SetToBag({Timer(fn, <<id>>)})
\* QTimer.singleShot(delay, lambda id=id: fn(id))
Reschedule(fn, id) == timers' = timers (+) SetToBag({Timer(fn, <<id>>)})

NeedsResendFlipped(pos) == pos < 2100
NeedsResend(pos) == pos > 2100

check_servo_position ==
  /\ slot.fn = "check_servo_position"
  /\ GuiFrame
  /\ UNCHANGED <<running>>
  /\ \/ /\ pc["gui"] = "lock"
        /\ Acquire("gui", "servo")
        /\ UNCHANGED <<inflight, timers>>
        /\ IF table[CurId] = Missing
             THEN /\ Goto("gui", "unlock")
                  /\ SetLast("gui", Event("check_servo_position", "no data", FALSE))
                  /\ UNCHANGED <<slot, phase>>
             ELSE IF NeedsResend(table[CurId][1])
               THEN /\ slot' = [slot EXCEPT !.op = "write_position"]
                    /\ Goto("gui", "tx")
                    /\ SetLast("gui", NoEvent)
                    /\ UNCHANGED phase
               ELSE /\ slot' = [slot EXCEPT !.op = "torque_disable"]
                    /\ SetPhase(CurId, "Settling")
                    /\ SetLast("gui", NoEvent)
                    /\ Goto("gui", "tx")
     \/ /\ pc["gui"] = "tx"
        /\ Tx("gui", "servo")
        /\ Goto("gui", "rx")
        /\ UNCHANGED <<mutex, timers, slot, last, phase>>
     \/ /\ pc["gui"] = "rx"
        /\ Rx("gui", "servo")
        /\ Goto("gui", "unlock")
        /\ UNCHANGED <<mutex, slot>>
        /\ \E ok \in BOOLEAN :
             IF ~ok
               THEN /\ SetLast("gui", Event(slot.op, "Exception", FALSE))
                    /\ UNCHANGED <<timers, phase>>
               ELSE /\ SetLast("gui", Event(slot.op, "ok", FALSE))
                    /\ IF slot.op = "write_position"
                         THEN /\ Reschedule("check_servo_position", CurId)
                              /\ UNCHANGED phase
                         ELSE /\ Reschedule("check_load_after_disable", CurId)
                              /\ SetPhase(CurId, "VerifyingSettled")
     \/ /\ pc["gui"] = "unlock"
        /\ Release("gui", "servo")
        /\ UNCHANGED <<inflight, timers, phase>>
        /\ SetLast("gui", NoEvent)
        /\ IF slot.i < Len(slot.ids)
             THEN /\ slot' = [slot EXCEPT !.i = @ + 1]
                  /\ Goto("gui", "lock")
             ELSE /\ slot' = NoSlot
                  /\ Goto("gui", "idle")

\* -------------------------------------- ServoThread.check_load_after_disable
\* if load != 0: the torque-disable command is resent
LoadNotZero(load) == load # 0

check_load_after_disable ==
  /\ slot.fn = "check_load_after_disable"
  /\ GuiFrame
  /\ UNCHANGED <<running>>
  /\ \/ /\ pc["gui"] = "lock"
        /\ Acquire("gui", "servo")
        /\ UNCHANGED <<inflight, timers, slot>>
        /\ IF table[CurId] = Missing
             THEN /\ Goto("gui", "unlock")
                  /\ SetLast("gui", Event("check_load_after_disable", "no data", FALSE))
                  /\ UNCHANGED phase
             ELSE IF LoadNotZero(table[CurId][2])
               THEN /\ Goto("gui", "tx")
                    /\ SetLast("gui", NoEvent)
                    /\ UNCHANGED phase
               ELSE /\ SetPhase(CurId, "Done")
                    /\ SetLast("gui", Event("check_load_after_disable", "load 0", FALSE))
                    /\ Goto("gui", "unlock")
     \/ /\ pc["gui"] = "tx"
        /\ Tx("gui", "servo")
        /\ Goto("gui", "rx")
        /\ UNCHANGED <<mutex, timers, slot, last, phase>>
     \/ /\ pc["gui"] = "rx"
        /\ Rx("gui", "servo")
        /\ Goto("gui", "unlock")
        /\ UNCHANGED <<mutex, slot, phase>>
        /\ \E ok \in BOOLEAN :
             IF ok
               THEN /\ Reschedule("check_load_after_disable", CurId)
                    /\ SetLast("gui", Event("torque_disable", "ok", FALSE))
               ELSE /\ UNCHANGED timers
                    /\ SetLast("gui", Event("torque_disable", "Exception", FALSE))
     \/ /\ pc["gui"] = "unlock"
        /\ Release("gui", "servo")
        /\ slot' = NoSlot
        /\ SetLast("gui", NoEvent)
        /\ Goto("gui", "idle")
        /\ UNCHANGED <<inflight, timers, phase>>

\* ------------------------------------------------------ QTimer.singleShot
\* a pending callback runs in the GUI thread's event loop
timeoutUnlessStopped(tm) ==
  /\ running["servo"]
  /\ pc["gui"] = "idle"
  /\ BagIn(tm, timers)
  /\ timers' = timers (-) SetToBag({tm})
  /\ slot' = [NoSlot EXCEPT !.fn = tm.fn, !.ids = tm.ids, !.i = 1,
                            !.op = "torque_disable"]
  /\ Goto("gui", "lock")
  /\ GuiFrame
  /\ UNCHANGED <<mutex, running, inflight, last, phase>>

timeout(tm) ==
  /\ pc["gui"] = "idle"
  /\ BagIn(tm, timers)
  /\ timers' = timers (-) SetToBag({tm})
  /\ slot' = [NoSlot EXCEPT !.fn = tm.fn, !.ids = tm.ids, !.i = 1,
                            !.op = "torque_disable"]
  /\ Goto("gui", "lock")
  /\ GuiFrame
  /\ UNCHANGED <<mutex, running, inflight, last, phase>>

timer_fires == \E tm \in BagToSet(timers) : timeout(tm)

\* --------------------------------------------------------- ServoThread.stop
servo_stop ==
  /\ GuiFrame
  /\ UNCHANGED <<mutex, inflight, timers, last, phase>>
  /\ \/ /\ pc["gui"] = "idle"
        /\ running["servo"]
        /\ running' = [running EXCEPT !["servo"] = FALSE]
        /\ slot' = [NoSlot EXCEPT !.fn = "servo_stop"]
        /\ Goto("gui", "wait")
     \/ \* self.wait() returns when run() has returned
        /\ pc["gui"] = "wait"
        /\ slot.fn = "servo_stop"
        /\ pc["servoThread"] = "finished"
        /\ slot' = NoSlot
        /\ Goto("gui", "idle")
        /\ UNCHANGED running

\* ------------------------------------------ RelayControlThread.control_relay
\* apply_relay_control calls relay_thread.control_relay from the GUI thread
call_control_relay ==
  /\ pc["gui"] = "idle"
  /\ slot' = [NoSlot EXCEPT !.fn = "control_relay", !.op = "control_relay"]
  /\ Goto("gui", "lock")
  /\ GuiFrame
  /\ UNCHANGED <<mutex, running, inflight, timers, last, phase>>

control_relay ==
  /\ slot.fn = "control_relay"
  /\ GuiFrame
  /\ UNCHANGED <<running, timers, phase>>
  /\ \/ /\ pc["gui"] = "lock"
        /\ Acquire("gui", "relay")
        /\ Goto("gui", "tx")
        /\ UNCHANGED <<inflight, slot, last>>
     \/ \* RelayControl.control_relay: reset_input_buffer, write(command)
        /\ pc["gui"] = "tx"
        /\ UNCHANGED <<mutex, slot>>
        /\ \E wrote \in BOOLEAN :
             IF wrote
               THEN /\ Tx("gui", "relay")
                    /\ Goto("gui", "rx")
                    /\ UNCHANGED last
               ELSE /\ Goto("gui", "unlock")
                    /\ SetLast("gui", Event("control_relay", Transport, FALSE))
                    /\ UNCHANGED inflight
     \/ \* sleep(0.05), read(15); the response is emitted as it is
        /\ pc["gui"] = "rx"
        /\ Rx("gui", "relay")
        /\ \E r \in RelayResponses :
             SetLast("gui", [op |-> "control_relay", out |-> "returned",
                             pub |-> TRUE, resp |-> r])
        /\ Goto("gui", "unlock")
        /\ UNCHANGED <<mutex, slot>>
     \/ /\ pc["gui"] = "unlock"
        /\ Release("gui", "relay")
        /\ Goto("gui", "idle")
        /\ slot' = NoSlot
        /\ SetLast("gui", NoEvent)
        /\ UNCHANGED inflight

\* --------------------------------------------------- RelayControlThread.stop
relay_stop ==
  /\ GuiFrame
  /\ UNCHANGED <<mutex, inflight, timers, last, phase>>
  /\ \/ /\ pc["gui"] = "idle"
        /\ running["relay"]
        /\ running' = [running EXCEPT !["relay"] = FALSE]
        /\ slot' = [NoSlot EXCEPT !.fn = "relay_stop"]
        /\ Goto("gui", "wait")
     \/ \* self.wait() returns when run() has returned
        /\ pc["gui"] = "wait"
        /\ slot.fn = "relay_stop"
        /\ pc["relayThread"] = "finished"
        /\ slot' = NoSlot
        /\ Goto("gui", "idle")
        /\ UNCHANGED running

\* ----------------------------- GearpumpControlWorker.set_flow_rate and others
MaxRegister == 65535

\* arguments the three commands are called with
SetArgs(fn) == CASE fn = "set_flow_rate" -> {-1, 5, 6554}
                 [] fn = "set_rotate_rate" -> {-1, 100, 65536}
                 [] fn = "set_pump_state" -> {0, 1, 2}

\* the value the controller method receives (the worker scales the flow)
ControllerArg(fn, a) == IF fn = "set_flow_rate" THEN a * 10 ELSE a

\* the range test each GearPumpController.set_* makes before any I/O
ValidSetArg(fn, v) ==
  IF fn = "set_pump_state" THEN v \in {0, 1} ELSE 0 <= v /\ v <= MaxRegister

\* results of a write transaction: the echo matches, the echo differs, or a
\* ModbusError; a write parser has no byte-count check
WriteOutcomes == {"ok", "mismatch", "incomplete", "devexc", "crc", Transport}

\* the GUI calls worker.set_*(value)
CallSet(fn) ==
  /\ pc["gui"] = "idle"
  /\ \E a \in SetArgs(fn) :
       slot' = [NoSlot EXCEPT !.fn = fn, !.op = fn, !.arg = a]
  /\ Goto("gui", "lock")
  /\ GuiFrame
  /\ UNCHANGED <<mutex, running, inflight, timers, last, phase>>

\* worker.set_*: lock, controller.set_* (validate, write, read, compare),
\* emit of *_set_response(success)
PumpSet(fn) ==
  /\ slot.fn = fn
  /\ GuiFrame
  /\ UNCHANGED <<running, timers, phase>>
  /\ \/ /\ pc["gui"] = "lock"
        /\ Acquire("gui", "pump")
        /\ UNCHANGED <<inflight, slot>>
        /\ IF ValidSetArg(fn, ControllerArg(fn, slot.arg))
             THEN /\ Goto("gui", "tx")
                  /\ UNCHANGED last
             ELSE /\ Goto("gui", "unlock")
                  /\ SetLast("gui", Event(fn, "invalid", FALSE))
     \/ /\ pc["gui"] = "tx"
        /\ UNCHANGED <<mutex, slot>>
        /\ \E wrote \in BOOLEAN :
             IF wrote
               THEN /\ Tx("gui", "pump")
                    /\ Goto("gui", "rx")
                    /\ UNCHANGED last
               ELSE /\ Goto("gui", "unlock")
                    /\ SetLast("gui", Event(fn, Transport, FALSE))
                    /\ UNCHANGED inflight
     \/ /\ pc["gui"] = "rx"
        /\ Rx("gui", "pump")
        /\ \E out \in WriteOutcomes :
             SetLast("gui", Event(fn, out, out = "ok"))
        /\ Goto("gui", "unlock")
        /\ UNCHANGED <<mutex, slot>>
     \/ /\ pc["gui"] = "unlock"
        /\ Release("gui", "pump")
        /\ Goto("gui", "idle")
        /\ slot' = NoSlot
        /\ SetLast("gui", NoEvent)
        /\ UNCHANGED inflight

call_set_flow_rate == CallSet("set_flow_rate")
set_flow_rate == PumpSet("set_flow_rate")
call_set_rotate_rate == CallSet("set_rotate_rate")
set_rotate_rate == PumpSet("set_rotate_rate")
call_set_pump_state == CallSet("set_pump_state")
set_pump_state == PumpSet("set_pump_state")

\* ------------------------------------------------ GearpumpControlWorker.stop
pump_stop ==
  /\ pc["gui"] = "idle"
  /\ running["pump"]
  /\ running' = [running EXCEPT !["pump"] = FALSE]
  /\ GuiFrame
  /\ UNCHANGED <<pc, mutex, inflight, timers, slot, last, phase>>

\* ================================================ protocol layer: frames
\* bytes are 0 .. 255; a frame is a sequence of bytes
Hi(x) == (x \div 256) % 256
Lo(x) == x % 256

\* bitwise exclusive or of two naturals
RECURSIVE Xor(_, _)
Xor(a, b) ==
  IF a = 0 THEN b
  ELSE IF b = 0 THEN a
  ELSE ((a + b) % 2) + 2 * Xor(a \div 2, b \div 2)

\* bit k (0 = least significant) of x
Bit(x, k) == (x \div (2 ^ k)) % 2

CrcInit == 65535      \* 0xFFFF
CrcPoly == 40961      \* 0xA001

\* GearPumpController._calculate_crc: the inner loop, k shifts to go
RECURSIVE CrcShift(_, _)
CrcShift(crc, k) ==
  IF k = 0 THEN crc
  ELSE CrcShift(IF crc % 2 = 1 THEN Xor(crc \div 2, CrcPoly) ELSE crc \div 2,
                k - 1)

\* GearPumpController._calculate_crc: the loop over data[lo..hi], in order;
\* the range is halved, and crc evaluated before each half, so that the
\* evaluation stays shallow on long frames
RECURSIVE CrcLoop(_, _, _, _)
CrcLoop(crc, data, lo, hi) ==
  IF crc \notin Nat \/ lo > hi THEN crc
  ELSE IF lo = hi THEN CrcShift(Xor(crc, data[lo]), 8)
  ELSE LET mid == (lo + hi) \div 2
       IN  CrcLoop(CrcLoop(crc, data, lo, mid), data, mid + 1, hi)

\* a checksum that leaves the first byte out
CrcSkipFirst(data) == CrcLoop(CrcInit, data, 2, Len(data))
calculate_crc(data) == CrcLoop(CrcInit, data, 1, Len(data))

\* struct.pack('<H', crc)
PackLE(x) == <<Lo(x), Hi(x)>>
\* struct.pack('>H', x)
PackBE(x) == <<Hi(x), Lo(x)>>
\* struct.unpack('<H', b)[0] and struct.unpack('>H', b)[0]
UnpackLE(b) == b[1] + 256 * b[2]
UnpackBE(b) == 256 * b[1] + b[2]

\* struct.pack raises struct.error for a value that does not fit its field
FitsB(x) == x >= 0 /\ x <= 255
FitsH(x) == x >= 0 /\ x <= 65535

\* struct.pack('>H', v) for every v of values, concatenated
PackValues(values) ==
  [i \in 1..(2 * Len(values)) |->
     IF i % 2 = 1 THEN Hi(values[(i + 1) \div 2]) ELSE Lo(values[i \div 2])]

\* GearPumpController.slave_id (default of __init__)
slave_id == 1

\* request += struct.pack('<H', self._calculate_crc(request))
AppendCrc(body) == body \o PackLE(calculate_crc(body))

\* struct.pack('>BBHH', self.slave_id, function, a, b)
PackHeader(fc, a, b) == <<slave_id, fc>> \o PackBE(a) \o PackBE(b)

construct_read_coils_request(coil_address, coil_count) ==
  AppendCrc(PackHeader(1, coil_address, coil_count))

construct_read_request(register_address, register_count) ==
  AppendCrc(PackHeader(3, register_address, register_count))

construct_write_request(register_address, value) ==
  AppendCrc(PackHeader(6, register_address, value))

construct_write_multiple_request(start_address, values) ==
  AppendCrc(PackHeader(16, start_address, Len(values))
              \o <<Len(values) * 2>> \o PackValues(values))

\* ------------------------------------------- results of an operation
\* the operation returned val; shape is the Python type of the value
Value(shape, val) == [kind |-> "value", why |-> shape, val |-> val]
\* the operation raised an exception of class kind
Raise(kind, why, val) == [kind |-> kind, why |-> why, val |-> val]

\* response[:-2] and response[-2:]
AllButLast2(b) == SubSeq(b, 1, Len(b) - 2)
Last2(b) == SubSeq(b, Len(b) - 1, Len(b))

\* calculated_crc != received_crc
CrcNeverChecked(resp) == FALSE
CrcMismatch(resp) ==
  calculate_crc(AllButLast2(resp)) # UnpackLE(Last2(resp))

\* (coil_count + 7) // 8
CoilBytes(coil_count) == (coil_count + 7) \div 8

\* ser.read(expected_length): the length each operation asks for
\* a length that rounds the coil bytes down
CoilsLengthFloor(coil_count) == 5 + coil_count \div 8
CoilsLength(coil_count) == 3 + CoilBytes(coil_count) + 2
RegistersLength(register_count) == 5 + 2 * register_count
WriteLength == 8

\* the values of struct.unpack('>' + 'H' * register_count, data)
UnpackRegisters(resp, register_count) ==
  [i \in 1..register_count |->
     UnpackBE(SubSeq(resp, 2 + 2 * i, 3 + 2 * i))]

\* a decoding that counts the bits from the most significant one
CoilStateMsbFirst(resp, i) == Bit(resp[4 + (i \div 8)], 7 - (i % 8))
\* (coil_data[byte_index] >> bit_index) & 0x01 for coil i (from 0), with
\* coil_data = response[3:3 + byte_count]
coil_state(resp, i) == Bit(resp[4 + (i \div 8)], i % 8)

\* GearPumpController._parse_coils_response
parse_coils_response(resp, coil_count) ==
  IF Len(resp) < CoilsLength(coil_count)
    THEN Raise("ModbusError", "incomplete", <<>>)
  ELSE IF resp[2] = 129
    THEN Raise("ModbusExceptionError", "exception", <<resp[3]>>)
  ELSE IF resp[3] # CoilBytes(coil_count)
    THEN Raise("ModbusError", "bytecount", <<>>)
  ELSE IF CrcMismatch(resp)
    THEN Raise("CRCMismatchError", "crc", <<>>)
  ELSE Value("list", [i \in 1..coil_count |-> coil_state(resp, i - 1)])

\* GearPumpController._parse_read_response
parse_read_response(resp, register_count) ==
  IF Len(resp) < RegistersLength(register_count)
    THEN Raise("ModbusError", "incomplete", <<>>)
  ELSE IF resp[2] = 131
    THEN Raise("ModbusExceptionError", "exception", <<resp[3]>>)
  ELSE IF resp[3] # 2 * register_count
    THEN Raise("ModbusError", "bytecount", <<>>)
  ELSE IF CrcMismatch(resp)
    THEN Raise("CRCMismatchError", "crc", <<>>)
  ELSE IF register_count > 1
    THEN Value("tuple", UnpackRegisters(resp, register_count))
  ELSE IF register_count = 1
    THEN Value("int", UnpackRegisters(resp, 1))
  ELSE Raise("IndexError", "unsigned_data[0]", <<>>)

\* GearPumpController._parse_write_response
parse_write_response(resp) ==
  IF Len(resp) < WriteLength
    THEN Raise("ModbusError", "incomplete", <<>>)
  ELSE IF resp[2] = 134
    THEN Raise("ModbusExceptionError", "exception", <<resp[3]>>)
  ELSE IF CrcMismatch(resp)
    THEN Raise("CRCMismatchError", "crc", <<>>)
  ELSE Value("pair", <<UnpackBE(SubSeq(resp, 3, 4)), UnpackBE(SubSeq(resp, 5, 6))>>)

\* GearPumpController._parse_write_multiple_response
parse_write_multiple_response(resp) ==
  IF Len(resp) < WriteLength
    THEN Raise("ModbusError", "incomplete", <<>>)
  ELSE IF resp[2] = 144
    THEN Raise("ModbusExceptionError", "exception", <<resp[3]>>)
  ELSE IF CrcMismatch(resp)
    THEN Raise("CRCMismatchError", "crc", <<>>)
  ELSE Value("pair", <<UnpackBE(SubSeq(resp, 3, 4)), UnpackBE(SubSeq(resp, 5, 6))>>)

\* ------------------------------------------------- relay protocol frames
RECURSIVE SumBytes(_)
SumBytes(b) == IF b = <<>> THEN 0 ELSE Head(b) + SumBytes(Tail(b))

\* data[:n]
Prefix(data, n) == SubSeq(data, 1, IF n < Len(data) THEN n ELSE Len(data))

\* RelayControl.calculate_checksum: sum(data[:12]) & 0xFF
ChecksumOfEleven(data) == SumBytes(Prefix(data, 11)) % 256
calculate_checksum(data) == SumBytes(Prefix(data, 12)) % 256

\* RelayControl.address (default of __init__)
address == 1

\* RelayControl.create_command
\* a command frame that ends with the checksum
CommandWithoutTrailer(cmd, data_bytes) ==
  LET command == <<72, 58, address, cmd>> \o data_bytes
  IN  command \o <<calculate_checksum(command)>>
create_command(cmd, data_bytes) ==
  LET command == <<72, 58, address, cmd>> \o data_bytes
  IN  command \o <<calculate_checksum(command)>> \o <<69, 68>>

\* x | (1 << k) and x & ~(1 << k)
SetBit(x, k) == IF Bit(x, k) = 1 THEN x ELSE x + 2 ^ k
ClearBit(x, k) == IF Bit(x, k) = 1 THEN x - 2 ^ k ELSE x

\* RelayControl.control_relay, the loop over zip(channels, states), from
\* pair i on: the data bytes, or <<>> when data_bytes[byte_index] raises
RECURSIVE RelayData(_, _, _)
RelayData(data, pairs, i) ==
  IF i > Len(pairs) THEN data
  ELSE LET byte_index == (pairs[i][1] - 1) \div 2
           bit_position == (pairs[i][1] - 1) % 2
           idx == IF byte_index >= 0 THEN byte_index + 1 ELSE byte_index + 9
       IN  IF byte_index >= 8 \/ byte_index < -8 THEN <<>>
           ELSE RelayData(
                  [data EXCEPT ![idx] =
                     IF pairs[i][2] = 1 THEN SetBit(@, 4 * bit_position)
                                        ELSE ClearBit(@, 4 * bit_position)],
                  pairs, i + 1)

\* a decoding that takes the odd channel from bit 4 and the even from bit 0
DecodeNibblesSwapped(resp) ==
  IF Len(resp) < 12 THEN Raise("IndexError", "response[4 + i]", <<>>)
  ELSE Value("list", [c \in 1..16 |->
                        IF c % 2 = 1 THEN Bit(resp[5 + ((c - 1) \div 2)], 4)
                                     ELSE Bit(resp[5 + ((c - 1) \div 2)], 0)])

\* RelayControl.read_relay_state: the decoding of the response
DecodeRelayState(resp) ==
  IF Len(resp) < 12 THEN Raise("IndexError", "response[4 + i]", <<>>)
  ELSE Value("list", [c \in 1..16 |->
                        IF c % 2 = 1 THEN Bit(resp[5 + ((c - 1) \div 2)], 0)
                                     ELSE Bit(resp[5 + ((c - 1) \div 2)], 4)])

\* ------------------------------------------------ the device on the line
\* Modbus CRC16 as the device computes it, one bit of the message at a time:
\* the low bit of the register xor the message bit decides on the xor with
\* the reflected polynomial
RECURSIVE DeviceCrcBits(_, _, _)
DeviceCrcBits(reg, byte, k) ==
  IF k = 0 THEN reg
  ELSE DeviceCrcBits(IF (reg + byte) % 2 = 1 THEN Xor(reg \div 2, CrcPoly)
                                             ELSE reg \div 2,
                     byte \div 2, k - 1)

RECURSIVE DeviceCrcFrom(_, _, _, _)
DeviceCrcFrom(reg, data, lo, hi) ==
  IF reg \notin Nat \/ lo > hi THEN reg
  ELSE IF lo = hi THEN DeviceCrcBits(reg, data[lo], 8)
  ELSE LET mid == (lo + hi) \div 2
       IN  DeviceCrcFrom(DeviceCrcFrom(reg, data, lo, mid), data, mid + 1, hi)

DeviceCrc(data) == DeviceCrcFrom(CrcInit, data, 1, Len(data))
DeviceFrame(body) == body \o PackLE(DeviceCrc(body))

\* the function code of the Modbus operation behind a call
FunctionCode(op) ==
  CASE op = "read_coils" -> 1
    [] op = "read_register" -> 3
    [] op = "write_register" -> 6
    [] op = "write_registers" -> 16

IsRelayOp(op) == op \in {"control_relay", "read_relay_state"}

\* the complete, valid response of the device to primitive call c, carrying
\* data (coil data bytes, register values, or the 8 relay data bytes)
WellFormed(c, data) ==
  CASE c.op = "read_coils" ->
         DeviceFrame(<<slave_id, 1, CoilBytes(c.n)>> \o data)
    [] c.op = "read_register" ->
         DeviceFrame(<<slave_id, 3, Lo(2 * c.n)>> \o PackValues(data))
    [] c.op = "write_register" ->
         DeviceFrame(<<slave_id, 6>> \o PackBE(c.addr) \o PackBE(c.n))
    [] c.op = "write_registers" ->
         DeviceFrame(<<slave_id, 16>> \o PackBE(c.addr) \o PackBE(Len(c.vals)))
    [] c.op = "control_relay" ->
         <<72, 58, address, 87>> \o data
           \o <<(72 + 58 + address + 87 + SumBytes(data)) % 256, 69, 68>>
    [] c.op = "read_relay_state" ->
         <<72, 58, address, 83>> \o data
           \o <<(72 + 58 + address + 83 + SumBytes(data)) % 256, 69, 68>>

\* frame with bit k of its bit string inverted (bit 0 = low bit of byte 1)
FlipBit(frame, k) ==
  [frame EXCEPT ![(k \div 8) + 1] =
     IF Bit(@, k % 8) = 1 THEN @ - 2 ^ (k % 8) ELSE @ + 2 ^ (k % 8)]

\* what the device puts on the line for primitive call c when it behaves as p
PeerFrame(c, p) ==
  LET good == WellFormed(c, p.data) IN
  CASE p.does = "answers" -> good
    [] p.does = "silent" -> <<>>
    [] p.does = "truncates" -> Prefix(good, p.k)
    [] p.does = "flips" -> FlipBit(good, p.k)
    [] p.does = "bad_checksum" ->
         [good EXCEPT ![13] = (@ + p.k) % 256]
    [] p.does = "exception" ->
         DeviceFrame(<<slave_id, FunctionCode(c.op) + 128, p.k>>)
    [] p.does = "exception_padded" ->
         \* a full-length frame whose function byte carries bit 0x80
         [i \in 1..Len(good) |->
            IF i = 2 THEN FunctionCode(c.op) + 128
            ELSE IF i = 3 THEN p.k
            ELSE good[i]]
    [] p.does = "bad_count" ->
         DeviceFrame([AllButLast2(good) EXCEPT ![3] = (@ + p.k) % 256])
    [] p.does = "wrong_echo" ->
         \* a valid frame that echoes another address, value or count
         DeviceFrame([AllButLast2(good) EXCEPT ![p.k] = (@ + 1) % 256])
    [] p.does = "other_slave" ->
         \* the valid frame of a device with slave address p.k
         DeviceFrame([AllButLast2(good) EXCEPT ![1] = p.k])

\* ------------------------------------------ operations of the controllers
SetOps == {"set_flow_rate", "set_rotate_rate", "set_pump_state"}

Call(op, addr, n, vals) == [op |-> op, addr |-> addr, n |-> n, vals |-> vals]

\* the named read operations of GearPumpController
ReadOps == {"read_current_flow", "read_rotate_rate", "read_pressure",
            "read_temperature", "read_pump_state"}

\* GearpumpControlWorker.set_flow_rate, called with the flow in mL/min
WorkerOps == {"worker_set_flow_rate"}

\* flow and rotate rate read from each other's register
ReadRegisterSwapped(op) ==
  CASE op = "read_current_flow" -> 1216
    [] op = "read_rotate_rate" -> 1214
    [] op = "read_pressure" -> 3006
    [] op = "read_temperature" -> 3010

\* the holding register each named read operation reads
ReadRegister(op) ==
  CASE op = "read_current_flow" -> 1214
    [] op = "read_rotate_rate" -> 1216
    [] op = "read_pressure" -> 3006
    [] op = "read_temperature" -> 3010

\* register values exchanged between ON and OFF
PumpValuesSwapped(state) == IF state = 1 THEN <<0, 0, 1>> ELSE <<1, 0, 0>>
\* set_pump_state: values = [1, 0, 0] for state 1, [0, 0, 1] otherwise
PumpValues(state) == IF state = 1 THEN <<1, 0, 0>> ELSE <<0, 0, 1>>

\* the transaction that a named operation of GearPumpController makes
Primitive(c) ==
  CASE c.op = "set_flow_rate" -> Call("write_register", 1200, c.n, <<>>)
    [] c.op = "set_rotate_rate" -> Call("write_register", 1202, c.n, <<>>)
    [] c.op = "set_pump_state" ->
         Call("write_registers", 1100, 0, PumpValues(c.n))
    [] c.op = "worker_set_flow_rate" ->
         Call("write_register", 1200, ControllerArg("set_flow_rate", c.n), <<>>)
    [] c.op = "read_pump_state" -> Call("read_coils", 1075, 1, <<>>)
    [] c.op \in ReadOps -> Call("read_register", ReadRegister(c.op), 1, <<>>)
    [] OTHER -> c

\* the range test of set_flow_rate / set_rotate_rate / set_pump_state
AcceptsAll(c) == FALSE
Rejected(c) ==
  \/ c.op \in SetOps /\ ~ValidSetArg(c.op, c.n)
  \/ /\ c.op \in WorkerOps
     /\ ~ValidSetArg("set_flow_rate", ControllerArg("set_flow_rate", c.n))

ZeroData == <<0, 0, 0, 0, 0, 0, 0, 0>>

\* the exception raised while the request of primitive call c is built,
\* or NoResult
ConstructError(c) ==
  CASE c.op \in {"read_coils", "read_register", "write_register"} ->
         IF FitsH(c.addr) /\ FitsH(c.n) THEN NoResult
         ELSE Raise("struct.error", "pack", <<>>)
    [] c.op = "write_registers" ->
         IF /\ FitsH(c.addr) /\ FitsH(Len(c.vals)) /\ FitsB(2 * Len(c.vals))
            /\ \A i \in 1..Len(c.vals) : FitsH(c.vals[i])
           THEN NoResult
           ELSE Raise("struct.error", "pack", <<>>)
    [] c.op = "control_relay" ->
         IF RelayData(ZeroData, c.vals, 1) = <<>>
           THEN Raise("IndexError", "data_bytes[byte_index]", <<>>)
           ELSE NoResult
    [] OTHER -> NoResult

\* the request frame of primitive call c
Request(c) ==
  CASE c.op = "read_coils" -> construct_read_coils_request(c.addr, c.n)
    [] c.op = "read_register" -> construct_read_request(c.addr, c.n)
    [] c.op = "write_register" -> construct_write_request(c.addr, c.n)
    [] c.op = "write_registers" ->
         construct_write_multiple_request(c.addr, c.vals)
    [] c.op = "control_relay" ->
         create_command(87, RelayData(ZeroData, c.vals, 1))
    [] c.op = "read_relay_state" -> create_command(83, ZeroData)

\* the length primitive call c passes to self.ser.read
ExpectedLength(c) ==
  CASE c.op = "read_coils" -> CoilsLength(c.n)
    [] c.op = "read_register" -> RegistersLength(c.n)
    [] c.op \in {"write_register", "write_registers"} -> WriteLength
    [] OTHER -> RelayFrameLen

\* parsers that answer only to the controller's own slave address
ParseOwnAddressOnly(c, resp) ==
  IF ~IsRelayOp(c.op) /\ Len(resp) >= ExpectedLength(c) /\ resp[1] # slave_id
    THEN Raise("ModbusError", "address", <<>>)
  ELSE CASE c.op = "read_coils" -> parse_coils_response(resp, c.n)
         [] c.op = "read_register" -> parse_read_response(resp, c.n)
         [] c.op = "write_register" -> parse_write_response(resp)
         [] c.op = "write_registers" -> parse_write_multiple_response(resp)
         [] c.op = "control_relay" -> Value("bytes", resp)
         [] c.op = "read_relay_state" -> DecodeRelayState(resp)

\* what primitive call c makes of the bytes it has read
Parse(c, resp) ==
  CASE c.op = "read_coils" -> parse_coils_response(resp, c.n)
    [] c.op = "read_register" -> parse_read_response(resp, c.n)
    [] c.op = "write_register" -> parse_write_response(resp)
    [] c.op = "write_registers" -> parse_write_multiple_response(resp)
    [] c.op = "control_relay" -> Value("bytes", resp)
    [] c.op = "read_relay_state" -> DecodeRelayState(resp)

ModbusErrorClasses ==
  {"ModbusError", "CRCMismatchError", "ModbusExceptionError"}

PyFalse == Value("bool", <<0>>)
PyTrue == Value("bool", <<1>>)

PyNoneResult == Value("None", <<>>)
PyOn == Value("str ON", <<>>)
PyOff == Value("str OFF", <<>>)

\* what a set_* operation expects the device to echo
Expected(c) ==
  IF c.op = "set_pump_state" THEN <<1100, 3>>
  ELSE <<Primitive(c).addr, Primitive(c).n>>

\* a comparison that takes any parsed response for the echo
EchoAlwaysMatches(c, r) == TRUE
\* reg_addr == REGISTER_ADDRESS and reg_val == value
EchoMatches(c, r) == r.val = Expected(c)

\* set_*: "except ModbusError: return False", and the comparison of the echo
\* with what was requested; read_*: "except ModbusError: return None" and
\* the scaling of the value; any other exception propagates.  The worker
\* catches every exception and emits False.
Outcome(c, r) ==
  IF c.op \in WorkerOps
    THEN IF r.kind = "value" /\ EchoMatches(c, r) THEN PyTrue ELSE PyFalse
  ELSE IF c.op \in SetOps
    THEN IF r.kind \in ModbusErrorClasses THEN PyFalse
         ELSE IF r.kind = "value"
           THEN IF EchoMatches(c, r) THEN PyTrue ELSE PyFalse
         ELSE r
  ELSE IF c.op \in ReadOps
    THEN IF r.kind \in ModbusErrorClasses THEN PyNoneResult
         ELSE IF r.kind # "value" THEN r
         ELSE CASE c.op = "read_pump_state" ->
                     IF r.val[1] = 1 THEN PyOn ELSE PyOff
                [] c.op = "read_pressure" -> Value("int / 100", r.val)
                [] c.op = "read_temperature" -> Value("int / 10", r.val)
                [] OTHER -> r
  ELSE r

SerEvent(ev, bytes, n) == [ev |-> ev, bytes |-> bytes, n |-> n]

\* ------------------------------------------------ one operation, stepwise
MaxFlipLen == 21   \* longest response in which single bits are flipped

\* register values and data bytes the device answers with
RegisterData(n) ==
  { [i \in 1..n |-> (i * 257 + 49) % 65536],
    [i \in 1..n |-> 65536 - i],
    [i \in 1..n |-> 0] }
    \cup (IF n = 1 THEN {<<50>>} ELSE {})
CoilData(n) == { [i \in 1..CoilBytes(n) |-> b] : b \in {0, 5, 253, 255} }
RelayStateData == { ZeroData, <<1, 1, 0, 0, 0, 0, 0, 16>>,
                    <<17, 17, 17, 17, 17, 17, 17, 17>> }

PeerData(c) ==
  CASE c.op = "read_coils" -> CoilData(c.n)
    [] c.op = "read_register" -> RegisterData(c.n)
    [] IsRelayOp(c.op) -> RelayStateData
    [] OTHER -> {<<>>}

Peer(does, k, data) == [does |-> does, k |-> k, data |-> data]

\* the behaviours of the device for primitive call c
PeerChoices(c) ==
  LET L == ExpectedLength(c)
      D == PeerData(c)
  IN  { Peer("answers", 0, d) : d \in D }
        \cup { Peer("silent", 0, <<>>) }
        \cup { Peer("truncates", k, d) :
                 k \in ({1, 4, 11, 12, 14, L - 1} \cap 1..(L - 1)), d \in D }
        \cup (IF L <= MaxFlipLen
                THEN { Peer("flips", k, d) : k \in 0..(8 * L - 1), d \in D }
                ELSE {})
        \cup (IF IsRelayOp(c.op)
                THEN { Peer("bad_checksum", 1, d) : d \in D }
                ELSE { Peer("exception", 2, <<>>) }
                       \cup { Peer("other_slave", 2, d) : d \in D }
                       \cup { Peer("exception_padded", k, d) :
                                k \in {2, 4}, d \in D }
                       \cup (IF c.op \in {"read_coils", "read_register"}
                               THEN { Peer("bad_count", 1, d) : d \in D }
                               ELSE { Peer("wrong_echo", k, <<>>) :
                                        k \in {2, 4, 6} }))

\* the operation returns or raises
Return(r) ==
  /\ result' = r
  /\ step' = "returned"

\* validation of the arguments and construction of the request frame
op_construct ==
  /\ step = "called"
  /\ IF Rejected(call)
       THEN Return(PyFalse)
       ELSE IF ConstructError(Primitive(call)) # NoResult
         THEN Return(Outcome(call, ConstructError(Primitive(call))))
         ELSE step' = "constructed" /\ UNCHANGED result
  /\ UNCHANGED <<call, ser, serlog, peer, response, bus>>

\* self.ser.reset_input_buffer()
op_reset_input_buffer ==
  /\ step = "constructed"
  /\ CASE ser = "none" ->
            Return(Outcome(call, Raise("AttributeError", "NoneType", <<>>)))
              /\ UNCHANGED serlog
       [] ser = "closed" ->
            Return(Outcome(call, Raise("SerialException", "port not open", <<>>)))
              /\ UNCHANGED serlog
       [] OTHER ->
            /\ serlog' = Append(serlog, SerEvent("reset_input_buffer", <<>>, 0))
            /\ step' = "discarded"
            /\ UNCHANGED result
  /\ UNCHANGED <<call, ser, peer, response, bus>>

\* self.ser.write(request): the bytes go out, or the write raises
op_write ==
  /\ step = "discarded"
  /\ serlog' = Append(serlog, SerEvent("write", Request(Primitive(call)), 0))
  /\ \/ step' = "written" /\ UNCHANGED result
     \/ Return(Outcome(call, Raise("SerialException", "write failed", <<>>)))
  /\ UNCHANGED <<call, ser, peer, response, bus>>

\* self.ser.read(expected_length): at most that many bytes of what the
\* device sent before the timeout
op_read ==
  /\ step = "written"
  /\ \E p \in PeerChoices(Primitive(call)) :
       /\ peer' = p
       /\ response' = Prefix(PeerFrame(Primitive(call), p),
                             ExpectedLength(Primitive(call)))
  /\ serlog' = Append(serlog,
                 SerEvent("read", <<>>, ExpectedLength(Primitive(call))))
  /\ step' = "read"
  /\ UNCHANGED <<call, ser, result, bus>>

\* the parse of the response and the return of the operation
op_return ==
  /\ step = "read"
  /\ Return(Outcome(call, Parse(Primitive(call), response)))
  /\ UNCHANGED <<call, ser, serlog, peer, response, bus>>

\* states of channels 1..16 passed to control_relay: each pair of channels
\* that shares a data byte takes each of its four combinations
RelayAssignments ==
  { [c \in 1..16 |-> 0], [c \in 1..16 |-> 1],
    [c \in 1..16 |-> c % 2], [c \in 1..16 |-> (c + 1) % 2],
    [c \in 1..16 |-> IF c \in {1, 3, 16} THEN 1 ELSE 0],
    [c \in 1..16 |-> (c \div 3) % 2] }

\* the calls made on the protocol layer: addresses, counts and values in
\* and out of range, the documented registers of the pump
Calls ==
  { Call("read_coils", 1075, n, <<>>) : n \in {0, 1, 3, 8, 9} }
    \cup { Call("read_coils", a, 1, <<>>) : a \in {0, 65535, 65536} }
    \cup { Call("read_register", a, n, <<>>) :
             a \in {1214, 3010}, n \in {0, 1, 2} }
    \cup { Call("read_register", 1214, n, <<>>) : n \in {-1, 8, 16, 123} }
    \cup { Call("write_register", a, v, <<>>) :
             a \in {1200, 1202}, v \in {-1, 0, 50, 65535, 65536} }
    \cup { Call("write_registers", 1100, 0, vs) :
             vs \in {<<>>, <<1, 0, 0>>, <<0, 0, 1>>, <<65535, 258>>, <<65536>>} }
    \cup { Call("control_relay", 0, 0, pairs) :
             pairs \in { <<>>, <<<<1, 1>>>>, <<<<1, 1>>, <<3, 1>>, <<16, 1>>>>,
                         <<<<2, 1>>, <<2, 0>>>>, <<<<0, 1>>>>, <<<<17, 1>>>>,
                         <<<<-16, 1>>>>, <<<<-1, 1>>>>,
                         <<<<1, 1>>, <<0, 1>>>>, <<<<16, 1>>, <<0, 0>>>> } }
    \cup { Call("control_relay", 0, 0, [c \in 1..16 |-> <<c, states[c]>>]) :
             states \in RelayAssignments }
    \cup { Call("read_relay_state", 0, 0, <<>>) }
    \cup { Call(op, 0, v, <<>>) :
             op \in {"set_flow_rate", "set_rotate_rate"},
             v \in {-1, 0, 50, 65535, 65536} }
    \cup { Call("set_pump_state", 0, v, <<>>) : v \in {-1, 0, 1, 2} }
    \cup { Call(op, 0, 0, <<>>) : op \in ReadOps }
    \cup { Call("worker_set_flow_rate", 0, v, <<>>) : v \in {-1, 5, 6553, 6554} }

\* an operation has just been called; the port is open, closed or was
\* never opened
InitCodec ==
  /\ InitBus
  /\ call \in Calls
  /\ step = "called"
  /\ ser \in {"open", "closed", "none"}
  /\ serlog = <<>>
  /\ peer = NoPeer
  /\ response = <<>>
  /\ result = NoResult

NextCodec ==
  \/ op_construct
  \/ op_reset_input_buffer
  \/ op_write
  \/ op_read
  \/ op_return

\* one operation of GearPumpController or RelayControl against a device
SpecCodec == InitCodec /\ [][NextCodec]_vars

\* ---------------------------------------------------- specifications
\* the servo bus: ServoThread.run and the slots of ServoThread
NextServo ==
  \/ servo_run
  \/ emit_write_position
  \/ write_position
  \/ disable_torque
  \/ emit_io_open
  \/ io_open
  \/ check_servo_position
  \/ check_load_after_disable
  \/ timer_fires
  \/ servo_stop

SpecServo == Init /\ [][NextServo]_vars

\* the monitored actuation sequence alone: the polling thread, io_open and
\* the verification steps it schedules, and stop
NextSequence ==
  \/ servo_run
  \/ emit_io_open
  \/ io_open
  \/ check_servo_position
  \/ check_load_after_disable
  \/ timer_fires
  \/ servo_stop

SpecSequence == Init /\ [][NextSequence]_vars

\* every verification step that singleShot can have pending
CheckTimers ==
  { Timer("check_servo_position", ids) : ids \in IoOpenArgs \cup {<<1>>} }
    \cup { Timer("check_load_after_disable", <<s>>) : s \in Servos }

\* a step of the slot or callback that the GUI thread is executing
GuiSequenceStep ==
  \/ io_open
  \/ check_servo_position
  \/ check_load_after_disable
  \/ servo_stop /\ pc["gui"] = "wait"

\* the sequence with its scheduling: the polling thread keeps running, a
\* pending callback is run once its delay is over and the event loop is
\* idle, and a slot that waits for the mutex gets it
FairSpecSequence ==
  /\ SpecSequence
  /\ WF_vars(servo_run)
  /\ SF_vars(GuiSequenceStep)
  /\ \A tm \in CheckTimers : SF_vars(timeout(tm))

\* the servo bus with the scheduling of its polling thread: the thread gets
\* the mutex it waits for, and a slot that has begun is finished
FairSpecServoPoll ==
  /\ SpecSequence
  /\ SF_vars(servo_run)
  /\ SF_vars(GuiSequenceStep)

\* the pump bus: the worker's poll cycle and its three commands
NextPump ==
  \/ start_monitoring
  \/ monitor_gearpump_state
  \/ call_set_flow_rate
  \/ set_flow_rate
  \/ call_set_rotate_rate
  \/ set_rotate_rate
  \/ call_set_pump_state
  \/ set_pump_state
  \/ pump_stop

SpecPump == Init /\ [][NextPump]_vars

\* a step of the command that the GUI thread is executing on the pump
GuiPumpStep == set_flow_rate \/ set_rotate_rate \/ set_pump_state

\* the pump bus with its scheduling: the poll timer keeps ticking, a caller
\* that waits for the mutex gets it, a command that has begun is finished
FairSpecPump ==
  /\ SpecPump
  /\ SF_vars(start_monitoring \/ monitor_gearpump_state)
  /\ SF_vars(GuiPumpStep)

\* the relay bus: RelayControlThread.run and control_relay
NextRelay ==
  \/ relay_run
  \/ call_control_relay
  \/ control_relay
  \/ relay_stop

SpecRelay == Init /\ [][NextRelay]_vars

\* the relay bus with its scheduling: the polling thread keeps running, a
\* caller that waits for the mutex gets it, a command that has begun is
\* finished, and wait() returns once the thread has finished
FairSpecRelay ==
  /\ SpecRelay
  /\ SF_vars(relay_run)
  /\ SF_vars(control_relay \/ (relay_stop /\ pc["gui"] = "wait"))

\* the three pollers side by side, and a command on one of the buses
NextBuses ==
  \/ start_monitoring
  \/ monitor_gearpump_state
  \/ relay_run
  \/ call_control_relay
  \/ control_relay
  \/ servo_run

SpecBuses == Init /\ [][NextBuses]_vars

\* =============================================================== claims
Pollers == {"pumpWorker", "relayThread", "servoThread"}

\* the bus of the worker object whose method the GUI thread is executing
SlotBus ==
  CASE slot.fn \in {"set_flow_rate", "set_rotate_rate", "set_pump_state"} -> "pump"
    [] slot.fn \in {"control_relay", "relay_stop"} -> "relay"
    [] slot.fn = "none" -> "none"
    [] OTHER -> "servo"

\* the bus task t works on in the current state
WorksOn(t) == IF t = "gui" THEN SlotBus ELSE BusOf(t)

\* control points inside a "with QMutexLocker(self.mutex)" block
InsideLock == {"tx", "rx", "delay", "unlock"}

\* a result that is a failure of the transaction
Failures == ModbusErrors \cup {Transport, "Exception", "IndexError", "mismatch"}

C3_BlockedOnlyByOwnBus ==
  \A t \in Tasks :
    (pc[t] = "lock" /\ mutex[MutexOf(WorksOn(t))] # Free)
      => WorksOn(mutex[MutexOf(WorksOn(t))]) = WorksOn(t)

\* C3 witness: transactions of the three buses are in flight at once while a
\* command waits for one of the mutexes
C3_Witness ==
  /\ inflight["pump"] = {"pumpWorker"}
  /\ inflight["relay"] = {"relayThread"}
  /\ inflight["servo"] = {"servoThread"}
  /\ pc["gui"] = "lock"

\* the control point at which a poller tests its stop flag
TestPc(p) == IF p = "pumpWorker" THEN "timer" ELSE "test"

Checks == {"check_servo_position", "check_load_after_disable"}

\* the last-known position (load) of servo s is in the table and within target
PositionReached(s) == table[s] # Missing /\ table[s][1] <= 2100
LoadSettled(s) == table[s] # Missing /\ table[s][2] = 0

CheckPending(s) ==
  \E tm \in BagToSet(timers) :
    tm.fn \in Checks /\ \E j \in 1..Len(tm.ids) : tm.ids[j] = s
CheckRunning(s) ==
  /\ slot.fn \in Checks
  /\ \E j \in slot.i..Len(slot.ids) : slot.ids[j] = s

\* C6: while the sequence of a servo is in VerifyingPosition and its position
\* is not known to be within target, or in VerifyingSettled and its load is
\* not known to be zero, a check for that servo is scheduled or running: the
\* sequence never comes to rest there, also when a resend raised an error or
\* when no value is available for the servo
C6_NeverAtRestUnmet ==
  \A s \in Servos :
    \/ phase[s] = "VerifyingPosition" /\ ~PositionReached(s)
    \/ phase[s] = "VerifyingSettled" /\ ~LoadSettled(s)
    => CheckPending(s) \/ CheckRunning(s)

\* every poll of servo s so far found its position above 2100
PositionHigh(s) == table[s] = Missing \/ table[s][1] > 2100

\* the position command is being resent to servo s by a position check
Resending(s) ==
  /\ slot.fn = "check_servo_position" /\ slot.op = "write_position"
  /\ CurId = s
  /\ "gui" \in inflight["servo"]

\* a command sent by a verification step has raised an error
ResendFailed == slot.fn \in Checks /\ last["gui"].out = "Exception"

\* every poll of servo s so far found a load other than 0
LoadHigh(s) == table[s] = Missing \/ table[s][2] # 0

\* torque-disable is being resent to servo s by a load check
ResendingDisable(s) ==
  /\ slot.fn = "check_load_after_disable"
  /\ CurId = s
  /\ "gui" \in inflight["servo"]

PositionCheckPending(s) ==
  table[s] # Missing /\ CheckPending(s) /\ phase[s] = "VerifyingPosition"
LoadCheckPending(s) ==
  table[s] # Missing /\ CheckPending(s) /\ phase[s] = "VerifyingSettled"

C8_StopCancelsNothing ==
  [][/\ (running["servo"] /\ ~running'["servo"]) => timers' = timers
     /\ \A tm \in BagToSet(timers) :
          CopiesIn(tm, timers') < CopiesIn(tm, timers) =>
            /\ pc["gui"] = "idle" /\ pc'["gui"] = "lock"
            /\ slot'.fn = tm.fn /\ slot'.ids = tm.ids
     /\ pc["gui"] = "idle" =>
          \A tm \in BagToSet(timers) : ENABLED timeout(tm)
     /\ ( /\ slot.fn \in Checks
          /\ "gui" \in inflight["servo"]
          /\ last'["gui"].out = "ok" ) =>
            \E fn \in Checks :
              CopiesIn(Timer(fn, <<CurId>>), timers')
                > CopiesIn(Timer(fn, <<CurId>>), timers)
    ]_vars

\* C8 witness: stop() has returned, the polling thread has finished, and a
\* position check that was scheduled before now resends the position command
C8_Witness ==
  /\ ~running["servo"]
  /\ pc["servoThread"] = "finished"
  /\ Resending(1)

\* the response of the relay is a complete frame whose checksum validates
RelayReadOk(r) == r[1] = RelayFrameLen /\ r[2]

\* C9: a failed poll withholds its result. Pump: the update of a quantity is
\* published exactly if the read of that quantity succeeded, and after an
\* error result of a read the next read of the cycle is made. Relay: an
\* update is published only from a complete response with a valid checksum.
\* Servo: a failed read publishes nothing and leaves the table as it was
C9_FailedPollWithholds ==
  [][/\ "pumpWorker" \in inflight["pump"] /\ "pumpWorker" \notin inflight'["pump"]
          => /\ last'["pumpWorker"].pub <=> last'["pumpWorker"].out = "ok"
             /\ ( last'["pumpWorker"].out \in ModbusErrors
                  /\ pumpIdx < Len(PumpReads) )
                  => pumpIdx' = pumpIdx + 1 /\ pc'["pumpWorker"] = "tx"
     /\ "relayThread" \in inflight["relay"] /\ "relayThread" \notin inflight'["relay"]
          => ( last'["relayThread"].pub => RelayReadOk(last'["relayThread"].resp) )
     /\ "servoThread" \in inflight["servo"] /\ "servoThread" \notin inflight'["servo"]
          => ( last'["servoThread"].out # "ok"
                 => ~last'["servoThread"].pub /\ table' = table )
    ]_vars

\* the read that poller p made last in this cycle has failed
FailedPoll(p) == pc[p] \in {"delay", "unlock"} /\ last[p].out \in Failures

\* poller p is in a poll cycle and about to send a read request
Attempts(p) == pc[p] = "tx"

Txn == Primitive(call)

\* ceil(n / 8)
Ceil8(n) == IF n % 8 = 0 THEN n \div 8 ELSE n \div 8 + 1

\* the response length the protocol documents for a transaction
PredictedLength(c) ==
  CASE c.op = "read_coils" -> 5 + Ceil8(c.n)
    [] c.op = "read_register" -> 5 + 2 * c.n
    [] c.op \in {"write_register", "write_registers"} -> 8
    [] IsRelayOp(c.op) -> 15

\* the three accesses of the serial port of one transaction, in order
Accesses ==
  << SerEvent("reset_input_buffer", <<>>, 0),
     SerEvent("write", Request(Txn), 0),
     SerEvent("read", <<>>, PredictedLength(Txn)) >>

ResponseRead == step = "read" \/ (step = "returned" /\ peer # NoPeer)

\* C11: every transaction discards the input, writes the complete request
\* once and reads once, asking for exactly the predicted length, in this
\* order; whatever the response, nothing is written or read a second time.
C11_TransactionOrder ==
  /\ Len(serlog) <= 3
  /\ serlog # <<>> => serlog = SubSeq(Accesses, 1, Len(serlog))
  /\ ResponseRead => serlog = Accesses
  /\ step = "written" => Len(serlog) = 2

C11_Witness ==
  /\ step = "returned"
  /\ call.op = "read_coils" /\ call.n = 9
  /\ peer.does = "silent"
  /\ result.kind = "ModbusError"
  /\ Len(serlog) = 3 /\ serlog[3].n = 7

\* a set_* operation called with a value its device range does not hold
OutOfRange ==
  \/ /\ call.op \in {"set_flow_rate", "set_rotate_rate"}
     /\ (call.n < 0 \/ call.n > 65535)
  \/ /\ call.op = "set_pump_state"
     /\ call.n # 0 /\ call.n # 1

WorkerRejects ==
  [][ /\ slot.fn \in SetOps
      /\ pc["gui"] = "lock"
      /\ pc'["gui"] # "lock"
      /\ \/ /\ slot.fn \in {"set_flow_rate", "set_rotate_rate"}
            /\ LET v == ControllerArg(slot.fn, slot.arg)
               IN  v < 0 \/ v > 65535
         \/ slot.fn = "set_pump_state" /\ slot.arg \notin {0, 1}
      => /\ pc'["gui"] = "unlock"
         /\ last'["gui"] = Event(slot.fn, "invalid", FALSE)
         /\ inflight' = inflight ]_vars

\* the results the protocol layer documents: a decoded value, or an error of
\* its taxonomy (the ModbusError classes, the serial port's own exception)
TypedResults == {"value"} \cup ModbusErrorClasses \cup {"SerialException"}

\* C13: every public operation ends with a decoded value or with a typed
\* error, never with an index, attribute or packing exception, for any
\* response, any count, any argument and a port that is not open.
C13_TypedResultsOnly ==
  step = "returned" => result.kind \in TypedResults

\* fewer bytes than the expected response length arrived before the timeout
ShortRead ==
  /\ step = "returned"
  /\ peer # NoPeer
  /\ Len(response) < PredictedLength(Txn)

\* the Incomplete error as the caller of the operation sees it
Incomplete == Outcome(call, Raise("ModbusError", "incomplete", <<>>))

\* C14: in every transaction of both protocols a short read makes the
\* operation fail with the Incomplete error; no value is decoded.
C14_ShortReadIsIncomplete == ShortRead => result = Incomplete

\* the response carries the request's function code with bit 0x80 set
ExceptionResponse ==
  /\ step = "returned"
  /\ peer # NoPeer
  /\ ~IsRelayOp(Txn.op)
  /\ Len(response) >= 3
  /\ response[2] = FunctionCode(Txn.op) + 128

\* DeviceException with the third byte as its code, as the caller sees it
DeviceException ==
  Outcome(call, Raise("ModbusExceptionError", "exception", <<response[3]>>))

\* C15: for each of the four Modbus operations, a response whose function
\* byte is the request's function code with bit 0x80 set fails with
\* DeviceException carrying the third byte, whatever the byte-count field.
C15_ExceptionPrecedence == ExceptionResponse => result = DeviceException

\* the operation has returned a value decoded from the response (the raw
\* bytes that control_relay hands back are not decoded)
Decoded ==
  /\ step = "returned"
  /\ peer # NoPeer
  /\ \/ /\ result.kind = "value"
        /\ result.why \in {"list", "tuple", "int", "pair", "int / 100",
                            "int / 10", "str ON", "str OFF"}
     \/ result = PyTrue

\* the checksum the response carries is the one of the bytes before it
ChecksumValid ==
  IF IsRelayOp(Txn.op)
    THEN /\ Len(response) >= 13
         /\ response[13] = SumBytes(SubSeq(response, 1, 12)) % 256
    ELSE /\ Len(response) >= 2
         /\ DeviceCrc(SubSeq(response, 1, Len(response) - 2))
              = response[Len(response) - 1] + 256 * response[Len(response)]

\* C16: no transaction returns a decoded value from a response whose CRC16
\* (Modbus) or checksum byte (relay state read) does not validate.
C16_NoValueWithoutChecksum == Decoded => ChecksumValid

\* a valid Modbus response reached the controller with one bit inverted
OneBitFlipped ==
  /\ step \in {"read", "returned"}
  /\ peer.does = "flips"
  /\ ~IsRelayOp(Txn.op)

\* C17: for every valid Modbus response and every bit position in it
\* (header, data, CRC field), inverting that bit makes the CRC computed over
\* all but the last two bytes differ from the trailing CRC, and the parser,
\* a function of the bytes read, returns no value.
C17_CrcSensitivity ==
  OneBitFlipped =>
    /\ response = FlipBit(WellFormed(Txn, peer.data), peer.k)
    /\ CrcMismatch(response)
    /\ ~ChecksumValid
    /\ step = "returned" =>
         /\ result = Outcome(call, Parse(Txn, response))
         /\ \/ result.kind \in ModbusErrorClasses
            \/ result = PyFalse
            \/ result = PyNoneResult

C17_Witness ==
  /\ step = "returned"
  /\ call.op = "read_register" /\ call.n = 2
  /\ peer.does = "flips" /\ peer.k = 71
  /\ response[9] >= 128 <=> WellFormed(Txn, peer.data)[9] < 128
  /\ result.kind = "CRCMismatchError"

\* the request as it was written to the port
Written == serlog[2].bytes

RequestWritten == Len(serlog) >= 2 /\ ~IsRelayOp(Txn.op)

\* the two 16-bit fields that follow the function code in a request
HeaderFields(c) ==
  IF c.op = "write_registers" THEN <<c.addr, Len(c.vals)>> ELSE <<c.addr, c.n>>

\* CRC16 check values: "123456789", and the frames 01 03 00,
\* 01 03 04 BE 00 01
KnownCrcs ==
  /\ calculate_crc(<<49, 50, 51, 52, 53, 54, 55, 56, 57>>) = 19255
  /\ calculate_crc(<<1, 3, 0>>) = 61472
  /\ calculate_crc(<<1, 3, 4, 190, 0, 1>>) = 7909
  /\ calculate_crc(<<>>) = 65535

\* C18: _calculate_crc is the Modbus CRC16 and fits in 16 bits, on every
\* request built and every byte sequence read; every Modbus request starts
\* with [slave_id, function, hi, lo, hi, lo], big-endian, and ends with the
\* CRC of all bytes before it, low byte first.
C18_CrcAndRequestLayout ==
  /\ KnownCrcs
  /\ RequestWritten =>
       LET body == AllButLast2(Written)
           crc == calculate_crc(body)
           f == HeaderFields(Txn)
       IN  /\ crc = DeviceCrc(body)
           /\ crc \in 0..65535
           /\ SubSeq(Written, 1, 6) =
                << 1, FunctionCode(Txn.op),
                   f[1] \div 256, f[1] % 256, f[2] \div 256, f[2] % 256 >>
           /\ Written[Len(Written) - 1] = crc % 256
           /\ Written[Len(Written)] = crc \div 256
           /\ Txn.op # "write_registers" => Len(Written) = 8
  /\ step = "read" =>
       LET crc == calculate_crc(response)
       IN  crc = DeviceCrc(response) /\ crc \in 0..65535

C18_Witness ==
  /\ step = "returned"
  /\ call = Call("read_register", 1214, 1, <<>>)
  /\ Len(serlog) = 3
  /\ Written = <<1, 3, 4, 190, 0, 1, 229, 30>>
  /\ peer.does = "flips"
  /\ calculate_crc(response) # 0

\* a frame has been written to the port
FrameWritten == Len(serlog) >= 2

\* the bytes of frame f before position i
Before(f, i) == SubSeq(f, 1, i - 1)

\* C19: in every request frame written, the CRC (Modbus) or checksum (relay)
\* field is the function of exactly the bytes before it: the CRC field is
\* the last two bytes of a Modbus request, the relay checksum is the 13th of
\* 15 bytes and is the sum mod 256 of the 12 bytes before it, 4 header bytes
\* and 8 data bytes; the trailer 45 44 follows it.
C19_ChecksumOverPrecedingBytes ==
  FrameWritten =>
    IF IsRelayOp(Txn.op)
      THEN /\ Len(Written) = 15
           /\ Before(Written, 5) = <<72, 58, 1, IF Txn.op = "control_relay"
                                                  THEN 87 ELSE 83>>
           /\ Written[13] = SumBytes(Before(Written, 13)) % 256
           /\ SubSeq(Written, 14, 15) = <<69, 68>>
      ELSE LET at == Len(Written) - 1
           IN  /\ at = (IF Txn.op = "write_registers"
                          THEN 8 + 2 * Len(Txn.vals) ELSE 7)
               /\ Written[at] + 256 * Written[at + 1]
                    = DeviceCrc(Before(Written, at))

C19_Witness ==
  /\ step = "written"
  /\ call.op = "control_relay"
  /\ call.vals = <<<<1, 1>>, <<3, 1>>, <<16, 1>>>>
  /\ Written = <<72, 58, 1, 87, 1, 1, 0, 0, 0, 0, 0, 16, 236, 69, 68>>

\* read_register against a device that replies with the well-formed frame
\* [slave, 0x03, 2 * count, values big-endian, CRC], for the counts named
RoundTrip ==
  /\ step = "returned"
  /\ call.op = "read_register"
  /\ call.n \in {0, 1, 2, 8, 16, 123}
  /\ peer.does = "answers"
  /\ response = <<1, 3, 2 * call.n>> \o PackValues(peer.data)
                  \o PackLE(DeviceCrc(<<1, 3, 2 * call.n>> \o PackValues(peer.data)))

\* C20: read_register reconstructs the values the device sent, as a single
\* integer when count = 1 and as an ordered sequence of length count
\* otherwise, the empty sequence for count = 0.
C20_RegisterRoundTrip ==
  RoundTrip =>
    /\ result.kind = "value"
    /\ result.val = peer.data
    /\ Len(result.val) = call.n
    /\ result.why = (IF call.n = 1 THEN "int" ELSE "tuple")

\* read_coils against a device that replies with a well-formed frame
CoilsAnswered ==
  /\ step = "returned"
  /\ call.op = "read_coils"
  /\ ConstructError(call) = NoResult
  /\ peer.does = "answers"

\* bit k of byte x, from the least significant bit
LsbBit(x, k) == (x \div (2 ^ k)) % 2

\* C21: for every coil count, 0 and non-multiples of 8 included, and every
\* well-formed response with ceil(count / 8) data bytes, read_coils returns
\* count values, each 0 or 1, value i being bit (i mod 8), from the least
\* significant, of data byte (i div 8); the padding bits play no part.
C21_CoilDecoding ==
  CoilsAnswered =>
    /\ Len(peer.data) = Ceil8(call.n)
    /\ result.kind = "value"
    /\ Len(result.val) = call.n
    /\ \A i \in 0..(call.n - 1) :
         /\ result.val[i + 1] \in {0, 1}
         /\ result.val[i + 1] = LsbBit(peer.data[(i \div 8) + 1], i % 8)

C21_Witness ==
  /\ CoilsAnswered
  /\ call.n = 3
  /\ peer.data = <<253>>
  /\ result.val = <<1, 0, 1>>

\* hi and lo byte of the 16-bit fields a and b, big-endian
Fields(a, b) == <<a \div 256, a % 256, b \div 256, b % 256>>

\* a response has been read and the operation has returned
Answered == step = "returned" /\ peer # NoPeer

\* the response is complete, is no device exception, carries a valid CRC
\* and echoes the fields a and b
GoodEcho(a, b) ==
  /\ Len(response) = 8
  /\ response[2] # FunctionCode(Txn.op) + 128
  /\ ChecksumValid
  /\ SubSeq(response, 3, 6) = Fields(a, b)

\* the register a flow or rotate-rate write is documented to target
SetRegister == IF call.op = "set_flow_rate" THEN 1200 ELSE 1202

C23_PumpSwitch ==
  call.op = "set_pump_state" =>
    /\ FrameWritten =>
         LET body == <<1, 16, 4, 76, 0, 3, 6>>
                       \o (IF call.n = 1 THEN <<0, 1, 0, 0, 0, 0>>
                                         ELSE <<0, 0, 0, 0, 0, 1>>)
         IN  /\ call.n \in {0, 1}
             /\ Written = body \o <<DeviceCrc(body) % 256, DeviceCrc(body) \div 256>>
    /\ Answered =>
         /\ result \in {PyTrue, PyFalse}
         /\ result = PyTrue <=> GoodEcho(1100, 3)

C23_Witness ==
  /\ Answered
  /\ call.op = "set_pump_state" /\ call.n = 1
  /\ Written = <<1, 16, 4, 76, 0, 3, 6, 0, 1, 0, 0, 0, 0, 12, 155>>
  /\ response = <<1, 16, 4, 76, 0, 3>> \o PackLE(DeviceCrc(<<1, 16, 4, 76, 0, 3>>))
  /\ result = PyTrue

\* C24: every request written by control_relay or read_relay_state is 15
\* bytes: 48 3A, the device address, the command (57 for control_relay, 53
\* for read_relay_state), 8 data bytes, the sum of the first 12 bytes modulo
\* 256, and 45 44; a read request carries 8 zero data bytes.
C24_RelayRequestLayout ==
  IsRelayOp(call.op) /\ FrameWritten =>
    /\ Len(Written) = 15
    /\ Written[1] = 72 /\ Written[2] = 58
    /\ Written[3] = 1
    /\ Written[4] = (IF call.op = "control_relay" THEN 87 ELSE 83)
    /\ \A i \in 5..12 : Written[i] \in 0..255
    /\ Written[13] =
         (72 + 58 + 1 + Written[4] + Written[5] + Written[6] + Written[7]
            + Written[8] + Written[9] + Written[10] + Written[11]
            + Written[12]) % 256
    /\ Written[14] = 69 /\ Written[15] = 68
    /\ call.op = "read_relay_state" => \A i \in 5..12 : Written[i] = 0

C24_Witness ==
  /\ step = "written"
  /\ call.op = "read_relay_state"
  /\ Written = <<72, 58, 1, 83, 0, 0, 0, 0, 0, 0, 0, 0, 214, 69, 68>>

\* control_relay was called with channels 1..16 only and its frame written
ChannelsEncoded ==
  /\ call.op = "control_relay"
  /\ FrameWritten
  /\ \A i \in 1..Len(call.vals) : call.vals[i][1] \in 1..16

\* the state requested for channel c: the last one given for it, off when
\* the channel is not named
Requested(c) ==
  LET named == { i \in 1..Len(call.vals) : call.vals[i][1] = c }
  IN  IF named = {} THEN 0
      ELSE LET last_i == CHOOSE i \in named : \A j \in named : j <= i
           IN  IF call.vals[last_i][2] = 1 THEN 1 ELSE 0

\* C25: control_relay puts channel 2k+1 in bit 0 and channel 2k+2 in bit 4 of
\* data byte k, every other bit 0, and decoding these 8 data bytes with the
\* layout of read_relay_state gives back the 16 channel states in order.
C25_RelayBitPacking ==
  ChannelsEncoded =>
    /\ \A k \in 0..7 :
         Written[5 + k] = Requested(2 * k + 1) + 16 * Requested(2 * k + 2)
    /\ DecodeRelayState(Written) = Value("list", [c \in 1..16 |-> Requested(c)])

C25_Witness ==
  /\ ChannelsEncoded
  /\ call.vals = [c \in 1..16 |-> <<c, IF c \in {1, 3, 16} THEN 1 ELSE 0>>]
  /\ SubSeq(Written, 5, 12) = <<1, 1, 0, 0, 0, 0, 0, 16>>
  /\ DecodeRelayState(Written).val
       = <<1, 0, 1, 0, 0, 0, 0, 0, 0, 0, 0, 0, 0, 0, 0, 1>>

\* function code, address and count or value documented for each named
\* operation of the pump
Documented(c) ==
  CASE c.op = "read_current_flow" -> <<3, 1214, 1>>
    [] c.op = "read_rotate_rate" -> <<3, 1216, 1>>
    [] c.op = "read_pressure" -> <<3, 3006, 1>>
    [] c.op = "read_temperature" -> <<3, 3010, 1>>
    [] c.op = "read_pump_state" -> <<1, 1075, 1>>
    [] c.op = "set_flow_rate" -> <<6, 1200, c.n>>
    [] c.op = "set_rotate_rate" -> <<6, 1202, c.n>>
    [] c.op = "worker_set_flow_rate" -> <<6, 1200, 10 * c.n>>

NamedOps == ReadOps \cup WorkerOps \cup {"set_flow_rate", "set_rotate_rate"}

\* C26: each named pump operation writes a request with its documented
\* function code and address: flow 1214, rotate rate 1216, pressure 3006,
\* temperature 3010 (one holding register each), running state one coil at
\* 1075 giving ON for 1 and OFF for 0, flow write 1200 and rotate-rate write
\* 1202 (single register); a flow reply 01 03 02 00 32 CRC yields 50; the
\* worker's set_flow_rate(f) writes 10 * f and range-checks 10 * f.
C26_DocumentedAddresses ==
  call.op \in NamedOps =>
    /\ FrameWritten =>
         LET d == Documented(call)
         IN  /\ Before(Written, 7) = <<1, d[1]>> \o Fields(d[2], d[3])
             /\ Len(Written) = 8
    /\ call.op = "read_current_flow" /\ Answered /\ peer.does = "answers" =>
         result = Value("int", peer.data)
    /\ call.op = "read_pump_state" /\ Answered /\ peer.does = "answers" =>
         result = (IF peer.data[1] % 2 = 1 THEN PyOn ELSE PyOff)
    /\ call.op = "worker_set_flow_rate" =>
         /\ (10 * call.n < 0 \/ 10 * call.n > 65535) => serlog = <<>>
         /\ step = "returned" => result \in {PyTrue, PyFalse}
         /\ result = PyTrue =>
              Answered /\ SubSeq(response, 3, 6) = Fields(1200, 10 * call.n)

C26_Witness ==
  /\ Answered
  /\ call.op = "read_current_flow"
  /\ Written = <<1, 3, 4, 190, 0, 1, 229, 30>>
  /\ SubSeq(response, 1, 5) = <<1, 3, 2, 0, 50>>
  /\ peer.does = "answers"
  /\ result = Value("int", <<50>>)


\* ---------------------------------------------------------------- C27
\* the values servos_positions_loads[id] can hold: no entry, or [pos, load]
Entries == {Missing} \cup {<<pos, load>> : pos \in Positions, load \in Loads}

\* the branch a verification callback takes on the entry it finds in
\* servos_positions_loads (check_servo_position, check_load_after_disable)
VerificationBranch(fn, entry) ==
  IF entry = Missing THEN "not available"
  ELSE IF fn = "check_servo_position"
    THEN IF NeedsResend(entry[1]) THEN "resend position" ELSE "torque disable"
    ELSE IF LoadNotZero(entry[2]) THEN "resend torque disable" ELSE "done"

\* the polling loop stores the result of read_all
PollerStores == pc["servoThread"] = "rx" /\ pc'["servoThread"] = "delay"

\* a verification callback, running in the GUI thread, takes the mutex and
\* looks up its servo in the table
CallbackLooksUp ==
  /\ slot.fn \in Checks
  /\ pc["gui"] = "lock" /\ pc'["gui"] # "lock"

\* what the callback does next is what the table entry of its servo says
BranchFollowsTable ==
  [][CallbackLooksUp =>
       LET b == VerificationBranch(slot.fn, table[CurId]) IN
       /\ (b = "not available") = (last'["gui"].out = "no data")
       /\ (b = "resend position")
            = (slot'.op = "write_position" /\ pc'["gui"] = "tx")
       /\ (b = "done") = (last'["gui"].out = "load 0")
       /\ (b \in {"torque disable", "resend torque disable"})
            = (slot'.op = "torque_disable" /\ pc'["gui"] = "tx")]_vars

\* the table is written by the polling loop only
WrittenByPollerOnly == [][table' # table => PollerStores]_vars

\* C27: the servo last-known position/load table is written only by the
\* polling loop and is never read back by another task: no step of the GUI
\* thread depends on what the table holds (whatever entry the table had for
\* the servo, the step would be the same)
C27_TableOwnedByPoller ==
  [][/\ table' # table => PollerStores
     /\ CallbackLooksUp =>
          \A e \in Entries :
            VerificationBranch(slot.fn, e)
              = VerificationBranch(slot.fn, table[CurId])]_vars


\* ---------------------------------------------------------------- C28
ModbusPrimitives ==
  {"read_coils", "read_register", "write_register", "write_registers"}

\* one of the four Modbus operations was called directly and got a response
\* (possibly empty) to parse
Parsed == Answered /\ call.op \in ModbusPrimitives

\* the four checks, on the bytes received, with the CRC of an independent
\* bit-serial CRC-16
TooShort == Len(response) < PredictedLength(call)
ExceptionBit == response[2] = FunctionCode(call.op) + 128
WrongByteCount ==
  /\ call.op \in {"read_coils", "read_register"}
  /\ response[3] # PredictedLength(call) - 5
WrongCrc ==
  DeviceCrc(SubSeq(response, 1, Len(response) - 2))
    # response[Len(response) - 1] + 256 * response[Len(response)]

\* the error of the first check that fails, in the order length, exception,
\* byte count, CRC; "none" when all four pass
FirstFailure ==
  IF TooShort THEN Raise("ModbusError", "incomplete", <<>>)
  ELSE IF ExceptionBit
    THEN Raise("ModbusExceptionError", "exception", <<response[3]>>)
  ELSE IF WrongByteCount THEN Raise("ModbusError", "bytecount", <<>>)
  ELSE IF WrongCrc THEN Raise("CRCMismatchError", "crc", <<>>)
  ELSE Raise("none", "", <<>>)

PassesAllChecks == FirstFailure.kind = "none"

\* the precedence alone: a response that fails a check ends with the error
\* of the first failing check, a response that passes all four with none of
\* these errors
PrecedenceOfChecks ==
  Parsed =>
    IF PassesAllChecks
      THEN result.kind \notin ModbusErrorClasses
      ELSE result = FirstFailure

\* C28: each failing Modbus response ends with exactly one error, the one of
\* the first failing check in the order Incomplete, DeviceException,
\* BadByteCount (reads only), CRC mismatch, the same in all four parsers; the
\* CRC mismatch has a kind of its own; a response that passes all four checks
\* yields a value
C28_ErrorPrecedence ==
  Parsed =>
    IF PassesAllChecks
      THEN result.kind = "value"
      ELSE /\ result = FirstFailure
           /\ (result.why = "crc") = (result.kind = "CRCMismatchError")


\* ---------------------------------------------------------------- C29
\* control_relay was called with a channel number outside 1..16
OutsideChannel ==
  /\ call.op = "control_relay"
  /\ \E i \in 1..Len(call.vals) : call.vals[i][1] \notin 1..16

\* the state of channel c as encoded in the frame written
Encoded(c) == Bit(Written[5 + (c - 1) \div 2], 4 * ((c - 1) % 2))

\* a channel number for which data_bytes[byte_index] does not exist is not
\* written: the call ends with IndexError before the port is touched
BeyondDataBytes ==
  /\ call.op = "control_relay"
  /\ \E i \in 1..Len(call.vals) :
       call.vals[i][1] > 16 \/ call.vals[i][1] < -15

NoIndexNoWrite ==
  BeyondDataBytes /\ step = "returned" =>
    serlog = <<>> /\ result.kind = "IndexError"

\* C29: control_relay called with a channel number outside 1..16 (0, a
\* negative number, 17) is rejected before any byte is written, and such a
\* channel never changes the encoded state of a channel 1..16 in a frame
\* that is sent
C29_ChannelValidation ==
  /\ OutsideChannel => ~FrameWritten
  /\ call.op = "control_relay" /\ FrameWritten =>
       \A c \in 1..16 : Encoded(c) = Requested(c)


\* ---------------------------------------------------------------- C30
\* the polling loop stores a value read from servo s
PollStores(s) ==
  /\ PollerStores
  /\ ServoOrder[servoCur] = s
  /\ last'["servoThread"].out = "ok"

\* the write of the sequence has been issued to servo s (io_open wrote the
\* position; the torque-disable and the resends come later still)
CommandIssued(s) == phase[s] # "Idle"

\* the polls in between fail: from the moment the write is issued to a servo
\* every read_all of that servo raises
PollsFailAfterCommand == \A s \in Servos : CommandIssued(s) => ~PollStores(s)

\* the monitored sequence with a device that stops answering reads once it
\* has been commanded: all that the table holds for a commanded servo was
\* read before the command
NextSequenceStale ==
  \/ servo_run /\ PollsFailAfterCommand
  \/ emit_io_open
  \/ io_open
  \/ check_servo_position
  \/ check_load_after_disable
  \/ timer_fires
  \/ servo_stop

SpecSequenceStale == Init /\ [][NextSequenceStale]_vars

\* under SpecSequenceStale the table entry of a commanded servo never changes
StaleEntriesKept ==
  [][\A s \in Servos : CommandIssued(s) /\ CommandIssued(s)' =>
       table'[s] = table[s]]_vars

\* C30: the position (load) that a verification step compares with the
\* target was read from the device after the write (torque-disable) it
\* verifies was issued, also when the polls in between failed: when every
\* poll since the command failed there is no such value, and the step takes
\* neither the "reached" nor the "resend" branch on an older one
C30_VerifiesValueReadAfterCommand ==
  [][CallbackLooksUp /\ CommandIssued(CurId) =>
       VerificationBranch(slot.fn, table[CurId]) = "not available"]_vars


\* ---------------------------------------------------------------- C31
\* the polled position of servo s is within target and its polled load is 0
PolledSettled(s) == PositionReached(s) /\ LoadSettled(s)

\* the sequence of servo s is over: Done, and no verification step is
\* pending or running for it
SequenceOver(s) ==
  phase[s] = "Done" /\ ~CheckPending(s) /\ ~CheckRunning(s)

\* the sequence of servo s is under way and no verification step is pending
\* or running for it: no later step can move it
AtRest(s) ==
  /\ phase[s] \in {"VerifyingPosition", "Settling", "VerifyingSettled"}
  /\ ~CheckPending(s) /\ ~CheckRunning(s)

\* C31: after io_open(ids), for every servo of ids: if from some point on the
\* polled position is <= 2100 and the polled load is 0 (the servo having been
\* polled successfully), the sequence of the servo eventually reaches Done
\* and no verification timer remains pending for it (the polling thread is
\* never stopped)
C31_SettledServoReachesDone ==
  \A s \in Servos :
    []running["servo"] /\ <>[]PolledSettled(s)
      => [](phase[s] = "VerifyingPosition" => <>SequenceOver(s))


\* what does hold: a servo whose polled values are within target from the
\* moment it is commanded, and whose verification commands never raise,
\* reaches Done with no verification step left
SettledReachesDoneIfCommandsSucceed ==
  \A s \in Servos :
    /\ []running["servo"]
    /\ [](phase[s] # "Idle" => PolledSettled(s))
    /\ []~ResendFailed
    => [](phase[s] = "VerifyingPosition" => <>SequenceOver(s))


\* ---------------------------------------------------------------- C32
\* the commands that write to a device, and the bus of each
WriteCommands ==
  SetOps \cup {"control_relay", "write_position", "disable_torque"}
CommandBus(fn) ==
  CASE fn \in SetOps -> "pump"
    [] fn = "control_relay" -> "relay"
    [] OTHER -> "servo"

\* the polling task of a bus
PollerOf(b) == CHOOSE t \in Pollers : BusOf(t) = b

\* where a polling task is once stop() has been requested and obeyed: the
\* poll timer of the pump worker stopped, run() of a thread returned
AtRestPc(t) == IF t = "pumpWorker" THEN "timer" ELSE "finished"

\* one poller is running, on bus b; the other two have been stopped
InitOneBus(b) ==
  /\ pc = [t \in Tasks |->
             IF t = "gui" THEN "idle"
             ELSE IF BusOf(t) = b
               THEN (IF t = "pumpWorker" THEN "created" ELSE "test")
               ELSE AtRestPc(t)]
  /\ running = [x \in Buses |-> x = b]
  /\ mutex = [x \in Buses |-> Free]
  /\ inflight = [x \in Buses |-> {}]
  /\ pumpIdx = 1
  /\ timerActive = FALSE
  /\ servoCur = 1
  /\ table = [s \in Servos |-> Missing]
  /\ timers = EmptyBag
  /\ slot = NoSlot
  /\ last = [t \in Tasks |-> NoEvent]
  /\ phase = [s \in Servos |-> "Idle"]
  /\ call = NoCall
  /\ step = "idle"
  /\ ser = "open"
  /\ serlog = <<>>
  /\ peer = NoPeer
  /\ response = <<>>
  /\ result = NoResult

InitCommands == \E b \in Buses : InitOneBus(b)

\* the pollers, and every write command issued on a bus whose poller is
\* running
NextCommands ==
  \/ start_monitoring
  \/ monitor_gearpump_state
  \/ relay_run
  \/ servo_run
  \/ call_set_flow_rate /\ running["pump"]
  \/ set_flow_rate
  \/ call_set_rotate_rate /\ running["pump"]
  \/ set_rotate_rate
  \/ call_set_pump_state /\ running["pump"]
  \/ set_pump_state
  \/ call_control_relay /\ running["relay"]
  \/ control_relay
  \/ emit_write_position /\ running["servo"]
  \/ write_position
  \/ timer_fires
  \/ disable_torque

SpecCommands == InitCommands /\ [][NextCommands]_vars

\* a step of the write command the GUI thread is executing
GuiCommandStep ==
  \/ set_flow_rate
  \/ set_rotate_rate
  \/ set_pump_state
  \/ control_relay
  \/ write_position
  \/ disable_torque

\* a step of one of the polling tasks
PollerStep ==
  \/ start_monitoring
  \/ monitor_gearpump_state
  \/ relay_run
  \/ servo_run

\* the delayed torque-disable that write_position arms for a servo
TorqueTimers == { Timer("disable_torque", <<s>>) : s \in Servos }

\* fair scheduling: the polling task keeps running and gets the mutex it
\* waits for, a command that waits for the mutex gets it, every serial read
\* returns, and a pending delayed torque-disable is delivered once its delay
\* is over and the event loop is idle
FairSpecCommands ==
  /\ SpecCommands
  /\ SF_vars(PollerStep)
  /\ SF_vars(GuiCommandStep)
  /\ \A tm \in TorqueTimers : SF_vars(timeout(tm))

\* a write command is being executed by the GUI thread, on bus b
Commanding(b) == slot.fn \in WriteCommands /\ CommandBus(slot.fn) = b

\* the command waits for the mutex of its bus / holds it
CommandWaits == slot.fn \in WriteCommands /\ pc["gui"] = "lock"
CommandHolds ==
  slot.fn \in WriteCommands /\ mutex[CommandBus(slot.fn)] = "gui"

\* the command, holding the mutex, is about to write its request
CommandWrites == CommandHolds /\ pc["gui"] = "tx"

\* the request of the command is on the line, or the write raised
CommandWritten ==
  /\ CommandHolds
  /\ \/ "gui" \in inflight[CommandBus(slot.fn)]
     \/ last["gui"].out = Transport

\* the command is over and has released the mutex
CommandOver == pc["gui"] = "idle" /\ \A b \in Buses : mutex[b] # "gui"

\* the polling task of bus b is between two cycles
BetweenCycles(b) ==
  pc[PollerOf(b)] \in {"created", "timer", "test", "lock", "finished"}

\* a polling task holds the mutex of its bus
PollerHolds == \E b \in Buses : mutex[b] = PollerOf(b)

\* C32: under fair scheduling of the mutex, with every serial read
\* returning, every write command issued while the poller of its bus is
\* running eventually acquires the mutex of the bus, performs its
\* transaction (a value the controller rejects is answered without one) and
\* releases the mutex; the poller does not hold the mutex between cycles and
\* never holds it for ever
C32_CommandLiveness ==
  /\ CommandWaits ~> CommandHolds
  /\ CommandWrites ~> CommandWritten
  /\ CommandHolds ~> CommandOver
  /\ [](\A b \in Buses : BetweenCycles(b) => mutex[b] # PollerOf(b))
  /\ PollerHolds ~> ~PollerHolds

\* C32 witness: the servo poller is running and waits for the mutex while
\* the transaction of a write_position command is on the line
C32_Witness ==
  /\ running["servo"]
  /\ pc["servoThread"] = "lock"
  /\ slot.fn = "write_position"
  /\ CommandWritten


\* ---------------------------------------------------------------- C33
\* the pump worker is inside a poll cycle: between taking the mutex and
\* leaving the with block
InCycle == pc["pumpWorker"] \in {"tx", "rx", "unlock"}

\* the GUI thread is inside the transaction of a pump command
PumpCommandActive ==
  /\ slot.fn \in SetOps
  /\ pc["gui"] \in {"tx", "rx", "unlock"}

\* the worker writes the request of a read
ReadIssued == pc["pumpWorker"] = "tx" /\ pc'["pumpWorker"] = "rx"

\* the worker takes the mutex for a cycle
CycleBegins == pc["pumpWorker"] = "lock" /\ pc'["pumpWorker"] = "tx"

\* C33: a pump poll cycle is one critical section: its reads are issued in
\* the order flow, rotate rate, pressure, temperature, pump state, the mutex
\* is held by the worker from the first to the last, and no transaction of a
\* write command takes place between two reads of the same cycle
C33_CycleIsOneCriticalSection ==
  [][/\ InCycle => mutex["pump"] = "pumpWorker" /\ ~PumpCommandActive
     /\ InCycle => "gui" \notin inflight["pump"]
     /\ CycleBegins => pumpIdx' = 1
     /\ InCycle /\ InCycle' =>
          /\ mutex'["pump"] = "pumpWorker"
          /\ pumpIdx' \in {pumpIdx, pumpIdx + 1}
          /\ pumpIdx' = pumpIdx + 1 =>
               pc["pumpWorker"] = "rx" /\ pc'["pumpWorker"] = "tx"
          /\ pc["pumpWorker"] = "rx" /\ pc'["pumpWorker"] = "tx" =>
               pumpIdx' = pumpIdx + 1
          /\ inflight'["pump"] \subseteq {"pumpWorker"}
     /\ ReadIssued =>
          PumpReads[pumpIdx]
            = <<"flow", "rotate", "pressure", "temperature", "state">>[pumpIdx]
    ]_vars

\* C33 witness: the third read of a cycle is on the line while a set command
\* of the GUI thread waits for the mutex
C33_Witness ==
  /\ pc["pumpWorker"] = "rx"
  /\ pumpIdx = 3
  /\ "pumpWorker" \in inflight["pump"]
  /\ slot.fn \in SetOps
  /\ pc["gui"] = "lock"


\* ---------------------------------------------------------------- C34
\* a step of ServoThread.run from control point a to control point b
PollerGoes(a, b) == pc["servoThread"] = a /\ pc'["servoThread"] = b

\* C34: every pass of the servo polling loop reads each configured servo
\* once, in the configured order: a pass begins at the first servo, each
\* read is made in a critical section of its own, the mutex is released
\* before the next servo, and after a read, failed or not, the loop goes on
\* to the next servo of the order, and to the next pass only after the last
C34_EveryServoEveryPass ==
  [][/\ pc["servoThread"] # pc'["servoThread"] =>
          \/ PollerGoes("test", "lock") /\ running["servo"] /\ servoCur' = 1
          \/ PollerGoes("test", "finished") /\ ~running["servo"]
          \/ /\ PollerGoes("lock", "tx")
             /\ mutex["servo"] = Free /\ mutex'["servo"] = "servoThread"
             /\ servoCur' = servoCur
          \/ /\ PollerGoes("tx", "rx")
             /\ inflight'["servo"] = {"servoThread"}
             /\ servoCur' = servoCur
          \/ /\ PollerGoes("rx", "delay")
             /\ last'["servoThread"].resp = <<ServoOrder[servoCur]>>
             /\ mutex'["servo"] = "servoThread"
             /\ servoCur' = servoCur
          \/ /\ PollerGoes("delay", "lock")
             /\ servoCur < Len(ServoOrder) /\ servoCur' = servoCur + 1
             /\ mutex'["servo"] = Free
          \/ /\ PollerGoes("delay", "test")
             /\ servoCur = Len(ServoOrder) /\ servoCur' = servoCur
             /\ mutex'["servo"] = Free
     /\ pc["servoThread"] = pc'["servoThread"] => servoCur' = servoCur
     /\ pc["servoThread"] \in {"test", "lock", "finished"}
          => mutex["servo"] # "servoThread"
    ]_vars

\* C34 witness: every read of servo 1 so far has failed, and servo 2, which
\* follows it in the order, has been read and is being read again
C34_Witness ==
  /\ table[1] = Missing
  /\ table[2] # Missing
  /\ servoCur = 2
  /\ "servoThread" \in inflight["servo"]


\* ---------------------------------------------------------------- C35
\* the pending verification timers that name servo s
TimersNaming(s) ==
  { tm \in BagToSet(timers) :
      tm.fn \in Checks /\ \E j \in 1..Len(tm.ids) : tm.ids[j] = s }

\* C35: for one io_open call, every servo named in it has at most one
\* verification timer pending at any time (one position check or one load
\* check, armed once), so a load check is never pending for a servo while a
\* position check for it is pending
C35_OneTimerPerServo ==
  \A s \in Servos :
    /\ \A tm \in TimersNaming(s) :
         /\ CopiesIn(tm, timers) = 1
         /\ TimersNaming(s) = {tm}
    /\ ~(\E p, l \in TimersNaming(s) :
           p.fn = "check_servo_position" /\ l.fn = "check_load_after_disable")

\* C35 witness: of the two servos of one io_open call, servo 1 has its load
\* check pending and servo 2 its position check
C35_Witness ==
  /\ BagIn(Timer("check_load_after_disable", <<1>>), timers)
  /\ BagIn(Timer("check_servo_position", <<2>>), timers)


\* ---------------------------------------------------------------- C36
\* the delayed torque-disables pending for servo s
TorquePending(s) == CopiesIn(Timer("disable_torque", <<s>>), timers)

\* the write of a write_position request for servo s returns (or raises)
WriteReturns(s) ==
  /\ slot.fn = "write_position" /\ CurId = s
  /\ pc["gui"] = "rx" /\ pc'["gui"] = "unlock"

\* the disable_torque slot, holding the mutex, sends torque-disable to s
TorqueAttempted(s) ==
  /\ slot.fn = "disable_torque" /\ CurId = s
  /\ mutex["servo"] = "gui"
  /\ "gui" \in inflight["servo"]

\* a delayed torque-disable of servo s is delivered to the slot
TorqueDelivered(s) ==
  /\ pc["gui"] = "idle"
  /\ slot'.fn = "disable_torque" /\ slot'.ids = <<s>>

\* C36: a write_position request whose write succeeds arms exactly one
\* delayed torque-disable for its servo and one whose write fails arms none;
\* a pending torque-disable is removed only by being delivered, one at a
\* time, and no later write_position cancels or postpones it; every pending
\* torque-disable is eventually attempted under the mutex
C36_DelayedTorqueDisable ==
  /\ [][\A s \in Servos :
          /\ WriteReturns(s) =>
               TorquePending(s)' =
                 TorquePending(s)
                   + (IF last'["gui"].out = "ok" THEN 1 ELSE 0)
          /\ TorquePending(s)' > TorquePending(s) => WriteReturns(s)
          /\ TorquePending(s)' < TorquePending(s) =>
               /\ TorqueDelivered(s)
               /\ TorquePending(s)' = TorquePending(s) - 1
          /\ slot.fn = "write_position" => TorquePending(s)' >= TorquePending(s)
       ]_vars
  /\ \A s \in Servos : (TorquePending(s) > 0) ~> TorqueAttempted(s)

\* C36 witness: torque-disable is being sent to servo 1 while a further
\* delayed torque-disable for servo 1, armed by a newer position write, is
\* still pending
C36_Witness ==
  /\ TorqueAttempted(1)
  /\ TorquePending(1) = 1


\* ---------------------------------------------------------------- C37
\* channel c is named in the call
Listed(c) == \E i \in 1..Len(call.vals) : call.vals[i][1] = c

\* the write frame for the channel states the call asks for, nothing else
FrameOfArguments ==
  create_command(87, [k \in 1..8 |->
                        Requested(2 * k - 1) + 16 * Requested(2 * k)])

\* what holds: when every channel named is one of 1..16 the frame written is
\* the frame of the arguments
ValidCallFrame == ChannelsEncoded => Written = FrameOfArguments

\* C37: the relay write frame depends on the arguments of the call only:
\* every channel of 1..16 that the call does not list is encoded as 0, a
\* channel listed more than once is encoded with the state listed last, and
\* the frame is the one these states give
C37_FrameFromArgumentsOnly ==
  call.op = "control_relay" /\ FrameWritten =>
    /\ \A c \in 1..16 : ~Listed(c) => Encoded(c) = 0
    /\ \A c \in 1..16 : Listed(c) => Encoded(c) = Requested(c)
    /\ Written = FrameOfArguments


\* ---------------------------------------------------------------- C38
\* the response with byte i replaced by v and the CRC of the new bytes
Rewritten(i, v) ==
  DeviceFrame([SubSeq(response, 1, Len(response) - 2) EXCEPT ![i] = v])

\* a complete Modbus response with a valid CRC has been parsed
CompleteValid ==
  /\ Answered
  /\ ~IsRelayOp(Txn.op)
  /\ Len(response) = ExpectedLength(Txn)
  /\ ChecksumValid

\* slave addresses and function codes a response can carry
SlaveAddresses == {0, 1, 2, 247, 255}
FunctionCodes == {0, 1, 3, 6, 7, 16, 127}

\* C38: the Modbus parsers compare neither the address byte of the response
\* with slave_id nor its function byte with the function code of the request
\* (the exception value apart): a complete CRC-valid response and the one
\* that differs from it in the address byte only, with its own CRC, give the
\* same result, and the write parsers give the same result for any other
\* function code that is not the exception value
C38_AddressAndFunctionUnchecked ==
  CompleteValid =>
    /\ \A a \in SlaveAddresses :
         Outcome(call, Parse(Txn, Rewritten(1, a))) = result
    /\ Txn.op \in {"write_register", "write_registers"}
         /\ response[2] # FunctionCode(Txn.op) + 128
         => \A f \in FunctionCodes :
              Outcome(call, Parse(Txn, Rewritten(2, f))) = result

\* C38 witness: the response of a device with slave address 2 to a register
\* read of the controller (slave_id 1) has been decoded to a value
C38_Witness ==
  /\ CompleteValid
  /\ peer.does = "other_slave"
  /\ response[1] = 2
  /\ call.op = "read_register"
  /\ result.kind = "value"

\* ---------------------------------------------------------------------
\* Poller termination (relay_control.py 90-114, servo_control.py 23-47,
\* gearpump_control.py 587-632)

\* the polling tasks, the write commands of the GUI thread, and stop() of
\* the three pollers
NextStop ==
  \/ NextCommands
  \/ relay_stop
  \/ servo_stop
  \/ pump_stop

SpecStop == InitCommands /\ [][NextStop]_vars

\* QThread.wait() in stop() returns once run() has returned
StopReturns ==
  \/ relay_stop /\ pc["gui"] = "wait"
  \/ servo_stop /\ pc["gui"] = "wait"

\* fair scheduling as for the commands; a finished thread wakes the caller
\* that waits for it
FairSpecStop ==
  /\ SpecStop
  /\ SF_vars(PollerStep)
  /\ SF_vars(GuiCommandStep)
  /\ SF_vars(StopReturns)

\* stop() of a polling thread is blocked in self.wait()
StopWaits(b) == pc["gui"] = "wait" /\ slot.fn = b \o "_stop"

\* the state of the pump worker and its timer
PumpWorkerState == <<pc["pumpWorker"], timerActive, pumpIdx, last["pumpWorker"]>>

\* C39: after stop() is requested, with every serial read returning and the
\* mutex eventually granted, the relay and the servo polling loop exit and
\* the blocking stop() call returns; the pump worker, between two cycles when
\* its stop() has been requested, starts no further cycle: the next thing it
\* does is the timer callback that stops the poll timer, and that callback
\* eventually runs.
C39_PollerTermination ==
  /\ StopWaits("relay") ~> (pc["relayThread"] = "finished")
  /\ StopWaits("servo") ~> (pc["servoThread"] = "finished")
  /\ (pc["gui"] = "wait") ~> (pc["gui"] = "idle" /\ slot = NoSlot)
  /\ [][ /\ ~running["pump"]
         /\ pc["pumpWorker"] = "timer"
         /\ PumpWorkerState' # PumpWorkerState
         => /\ ~timerActive'
            /\ pc'["pumpWorker"] = "timer"
            /\ mutex' = mutex ]_vars
  /\ (~running["pump"] /\ timerActive) ~> ~timerActive

\* stop() of the servo thread is about to return: the loop has completed
\* its pass over the servos, released the mutex and exited
C39_Witness ==
  /\ StopWaits("servo")
  /\ pc["servoThread"] = "finished"
  /\ mutex["servo"] = Free
  /\ servoCur > 1

====
